---- MODULE Spec2Model ----
(***************************************************************************)
(* Payments store of beszel (internal/site/src/lib/payments):              *)
(* the backend-synced record store (paymentsStore.ts), the PocketBase      *)
(* collections it talks to, and the route effect that mounts and unmounts  *)
(* it.  Remote calls are split into the request, the backend's step and    *)
(* the delivery of the response, so that every await of the code is a      *)
(* point where other handlers may run.                                     *)
(***************************************************************************)
EXTENDS Integers, Sequences, FiniteSets, TLC

\* ---- bounds ----
MaxInits == 2   \* initPayments() calls (route mounts) in one behaviour
MaxOps == 1     \* local create / update / delete calls in one behaviour

Coll == {"providers", "payments"}
Undef == "undefined"
NoHandler == 0

VARIABLES
    db,        \* backend: collection -> sequence of PocketBase records
    nextId,    \* backend: collection -> next id to assign
    handlers,  \* collection -> realtime handlers registered with the backend
    rt,        \* collection -> realtime events sent and not yet delivered
    cache,     \* $providers / $payments
    unsub,     \* collection -> the manager's `unsub` closure variable
    loading,   \* $paymentsLoading
    error,     \* $paymentsError
    mounted,   \* the payments route is mounted
    ninit,     \* number of initPayments() calls so far
    init,      \* per initPayments() call: position and pending remote calls
    op,        \* the local CRUD call in flight (or the last one)
    nops,      \* number of local CRUD calls so far
    last,      \* the handler that ran in the last step (history)
    nfail,     \* number of remote calls that failed so far
    rates,     \* $rates
    ratesLoading, \* $ratesLoading
    lr,        \* per loadRates() call: position, attempts, what it holds
    imp,       \* the importPaymentsData() call
    calc,      \* the last call of a function that only computes (history)
    local      \* $providers / $payments of the local-only store

vars == <<db, nextId, handlers, rt, cache, unsub, loading, error, mounted,
          ninit, init, op, nops, last, nfail, rates, ratesLoading, lr, imp,
          calc, local>>

\* what the store's own handlers leave alone
aside == <<nfail, rates, ratesLoading, lr, imp, calc, local>>

\* ---- records ----

\* PocketBase stores an absent optional text as "" (migrations: Required false)
ProviderRecord(id, name, url, currencyDefault, notes) ==
    [id |-> id, user |-> "u1", name |-> name, url |-> url,
     currencyDefault |-> currencyDefault, notes |-> notes]

PaymentRecord(id, system, provider, period, nextPayment, amount, currency, country, providerUrlOverride, notes) ==
    [id |-> id, user |-> "u1", system |-> system, provider |-> provider,
     period |-> period, nextPayment |-> nextPayment, amount |-> amount,
     currency |-> currency, country |-> country,
     providerUrlOverride |-> providerUrlOverride, notes |-> notes]

\* a PocketBase DateField value "2024-01-01 00:00:00.000Z", kept as its
\* two space-separated parts
PBDate(d) == <<d, "00:00:00.000Z">>

\* x || undefined
OrUndef(x) == IF x = "" THEN Undef ELSE x
\* x || ''
OrEmpty(x) == IF x = Undef THEN "" ELSE x

toProvider(record) ==
    [id |-> record.id, name |-> record.name, url |-> record.url,
     currencyDefault |-> OrUndef(record.currencyDefault),
     notes |-> OrUndef(record.notes)]

toPayment(record) ==
    [id |-> record.id, serverId |-> record.system,
     providerId |-> record.provider, period |-> record.period,
     nextPayment |-> record.nextPayment[1],
     amount |-> record.amount, currency |-> record.currency,
     country |-> OrUndef(record.country),
     providerUrlOverride |-> OrUndef(record.providerUrlOverride),
     notes |-> OrUndef(record.notes)]

Convert(m, record) ==
    IF m = "providers" THEN toProvider(record) ELSE toPayment(record)

\* ---- the cache primitives of a manager ----

Ids(s) == {s[i].id : i \in 1..Len(s)}

\* mutant of MapSet: { ...old, ...r } with an absent notes key of r left out
MapSet_patch(map, r) ==
    IF \E i \in 1..Len(map) : map[i].id = r.id
    THEN [i \in 1..Len(map) |->
            IF map[i].id = r.id
            THEN [r EXCEPT !.notes = IF @ = Undef THEN map[i].notes ELSE @]
            ELSE map[i]]
    ELSE Append(map, r)

\* variant of MapSet: an array push in place of a keyed set
MapSet_push(map, r) == Append(map, r)

\* Map.prototype.set: an existing key keeps its position, a new key is last
MapSet(map, r) ==
    IF \E i \in 1..Len(map) : map[i].id = r.id
    THEN [i \in 1..Len(map) |-> IF map[i].id = r.id THEN r ELSE map[i]]
    ELSE Append(map, r)

RECURSIVE MapSetAll(_, _)
MapSetAll(map, recs) ==
    IF recs = <<>> THEN map
    ELSE MapSetAll(MapSet(map, Head(recs)), Tail(recs))

\* mutant of add: [...current, ...records]
add_append(current, records) == current \o records

\* variant of add: payments are keyed by serverId (one entry per server)
add_byServerId(current, records) ==
    SelectSeq(current, LAMBDA p :
        \A i \in 1..Len(records) :
            IF "serverId" \in DOMAIN p THEN p.serverId # records[i].serverId
            ELSE p.id # records[i].id) \o records

\* providerManager.add / paymentManager.add
add(current, records) == MapSetAll(MapSetAll(<<>>, current), records)

\* variant of remove: the filter keeps the entries it should drop
remove_inverted(current, ids) == SelectSeq(current, LAMBDA p : p.id \in ids)

\* providerManager.remove / paymentManager.remove
remove(current, ids) == SelectSeq(current, LAMBDA p : p.id \notin ids)

\* variant of handler: a created or updated record replaces the cache
handler_replace(m, current, e) ==
    IF e.action = "create" \/ e.action = "update"
    THEN <<Convert(m, e.record)>>
    ELSE IF e.action = "delete" THEN remove(current, {e.record.id})
    ELSE current

\* the callback given to pb.collection(m).subscribe('*', ...)
handler(m, current, e) ==
    IF e.action = "create" \/ e.action = "update"
    THEN add(current, <<Convert(m, e.record)>>)
    ELSE IF e.action = "delete" THEN remove(current, {e.record.id})
    ELSE current

\* mutant of refresh: add(providers)
refresh_merge(current, fetched) == add(current, fetched)

\* refresh(): $providers.set(providers)
refresh(current, fetched) == fetched

\* mutant of directResponse: $providers.set([...$providers.get(), newProvider])
directResponse_append(m, current, record) ==
    Append(current, Convert(m, record))

\* what addProvider / addPayment / updateProvider / updatePayment do to the
\* store with the backend's response: the record is converted and returned
\* (create) or dropped (update); the store is not written
directResponse(m, current, record) == current

\* what deleteProvider / deletePayment do to the stores once the backend
\* confirmed: nothing
directDelete(m, caches, id) == caches

\* ---- the backend (PocketBase collections) ----

NameRank(n) == CASE n = "a" -> 1 [] n = "b" -> 2 [] OTHER -> 3

RECURSIVE InsertByName(_, _)
InsertByName(sorted, r) ==
    IF sorted = <<>> THEN <<r>>
    ELSE IF NameRank(r.name) < NameRank(Head(sorted).name)
         THEN <<r>> \o sorted
         ELSE <<Head(sorted)>> \o InsertByName(Tail(sorted), r)

RECURSIVE SortByName(_)
SortByName(s) ==
    IF s = <<>> THEN <<>>
    ELSE InsertByName(SortByName(SubSeq(s, 1, Len(s) - 1)), s[Len(s)])

\* getFullList({ sort: '+name' }) for providers, getFullList() for payments
getFullList(m, table) ==
    IF m = "providers" THEN SortByName(table) ELSE table

\* fetchAll(): records.map(toProvider) / records.map(toPayment)
fetchAll(m, records) == [i \in 1..Len(records) |-> Convert(m, records[i])]


Fields(pb, old) ==
    [f \in DOMAIN old |->
        IF f \in DOMAIN pb /\ pb[f] # Undef THEN pb[f] ELSE old[f]]

\* pb.collection(m).create(fields): the record as the backend stores it
CreateRecord(m, id, input) ==
    IF m = "providers"
    THEN ProviderRecord(id, input.name, input.url,
                        OrEmpty(input.currencyDefault), OrEmpty(input.notes))
    ELSE PaymentRecord(id, input.serverId, input.providerId, input.period,
                       PBDate(input.nextPayment), input.amount,
                       input.currency, OrEmpty(input.country),
                       OrEmpty(input.providerUrlOverride),
                       OrEmpty(input.notes))

\* updateProvider / updatePayment: the pbUpdates object built from the
\* defined keys of `updates` (an absent key is Undef here)
pbUpdates(m, updates) ==
    IF m = "providers"
    THEN [name |-> updates.name, url |-> updates.url,
          currencyDefault |-> updates.currencyDefault,
          notes |-> updates.notes]
    ELSE [system |-> updates.serverId, provider |-> updates.providerId,
          period |-> updates.period,
          nextPayment |-> IF updates.nextPayment = Undef THEN Undef
                          ELSE PBDate(updates.nextPayment),
          amount |-> updates.amount, currency |-> updates.currency,
          country |-> updates.country,
          providerUrlOverride |-> updates.providerUrlOverride,
          notes |-> updates.notes]

RecordOf(table, id) == CHOOSE r \in {table[i] : i \in 1..Len(table)} : r.id = id

\* realtime events go out only while the client has a handler registered
Emit(queue, m, events) ==
    IF handlers[m] = {} THEN queue ELSE queue \o events

DeleteEvents(records, mid) ==
    [i \in 1..Len(records) |->
        [action |-> "delete", record |-> records[i], mid |-> mid]]

\* payments removed by the provider relation's CascadeDelete
Cascaded(m, id) ==
    IF m = "providers"
    THEN SelectSeq(db["payments"], LAMBDA r : r.provider = id)
    ELSE <<>>

\* the unique index idx_pmt_user_system: one payment per system
UniqueSystem(table, system) == \A i \in 1..Len(table) : table[i].system # system

\* ---- inputs of the local calls ----

ProviderInputs ==
    {[name |-> "a", url |-> "u", currencyDefault |-> Undef, notes |-> Undef]}

ProviderUpdates ==
    {[name |-> "a", url |-> Undef, currencyDefault |-> Undef, notes |-> ""]}

PaymentInputs ==
    {[serverId |-> "s2", providerId |-> p, period |-> "monthly",
      nextPayment |-> "2024-01-01", amount |-> 10, currency |-> "RUB",
      country |-> Undef, providerUrlOverride |-> Undef, notes |-> Undef] :
        p \in Ids(db["providers"])}

PaymentUpdates ==
    {[serverId |-> Undef, providerId |-> Undef, period |-> Undef,
      nextPayment |-> "2024-02-01", amount |-> Undef, currency |-> Undef,
      country |-> Undef, providerUrlOverride |-> Undef, notes |-> Undef]}

Inputs(kind, m) ==
    IF kind = "create"
    THEN (IF m = "providers" THEN ProviderInputs ELSE PaymentInputs)
    ELSE IF kind = "update"
    THEN (IF m = "providers" THEN ProviderUpdates ELSE PaymentUpdates)
    ELSE {Undef}

\* ---- rates, loadRates() calls and the import call before they start ----

MaxLoads == 2   \* loadRates() calls in one behaviour

\* a JS number with two decimals is kept as its hundredfold
Scale == 100
Mul(a, b) == (a * b) \div Scale

\* const MARKUP = 1.05
MARKUP == 105

FALLBACK_RATES ==
    [USD |-> Mul(9500, MARKUP), EUR |-> Mul(10500, MARKUP),
     updated |-> "fallback", source |-> "fallback"]

IdleLoad == [pc |-> "idle"]
NoImport == [pc |-> "idle"]
NoCalc == [fn |-> "none"]
\* defaultState of the local-only store: no providers, no payments
defaultState == [m \in Coll |-> <<>>]

InitAside ==
    /\ nfail = 0
    /\ rates = FALLBACK_RATES
    /\ ratesLoading = FALSE
    /\ lr = [k \in 1..MaxLoads |-> IdleLoad]
    /\ imp = NoImport
    /\ calc = NoCalc
    /\ local = defaultState

\* ---- initial state ----

NoLast == [op |-> "none"]
NoOp == [stage |-> "none"]

InitCall ==
    [pc |-> "idle",
     rf |-> [m \in Coll |-> "idle"], snap |-> [m \in Coll |-> <<>>],
     sb |-> [m \in Coll |-> "idle"]]

\* the user already has one provider and one payment at the backend
Init ==
    /\ db = [m \in Coll |->
              IF m = "providers"
              THEN <<ProviderRecord(1, "b", "u", "", "n")>>
              ELSE <<PaymentRecord(1, "s1", 1, "monthly",
                                   PBDate("2024-01-01"), 10, "RUB", "", "", "")>>]
    /\ nextId = [m \in Coll |-> 2]
    /\ handlers = [m \in Coll |-> {}]
    /\ rt = [m \in Coll |-> <<>>]
    /\ cache = [m \in Coll |-> <<>>]
    /\ unsub = [m \in Coll |-> NoHandler]
    /\ loading = TRUE
    /\ error = "null"
    /\ mounted = FALSE
    /\ ninit = 0
    /\ init = [i \in 1..MaxInits |-> InitCall]
    /\ op = NoOp
    /\ nops = 0
    /\ last = NoLast
    /\ InitAside

\* ---- the route effect: initPayments() / cleanupPayments() ----

\* useEffect body: initPayments() up to its first await; both refresh()
\* calls of Promise.all have sent their list request
Mount ==
    /\ ~mounted
    /\ ninit < MaxInits
    /\ mounted' = TRUE
    /\ ninit' = ninit + 1
    /\ loading' = TRUE
    /\ error' = "null"
    /\ init' = [init EXCEPT ![ninit + 1].pc = "refreshing",
                            ![ninit + 1].rf = [m \in Coll |-> "sent"]]
    /\ last' = NoLast
    /\ UNCHANGED <<db, nextId, handlers, rt, cache, unsub, op, nops>>
    /\ UNCHANGED aside

\* the backend reads the collection for a list request
ListServe(i, m) ==
    /\ init[i].rf[m] = "sent"
    /\ init' = [init EXCEPT ![i].rf[m] = "read",
                            ![i].snap[m] = getFullList(m, db[m])]
    /\ last' = NoLast
    /\ UNCHANGED <<db, nextId, handlers, rt, cache, unsub, loading, error,
                   mounted, ninit, op, nops>>
    /\ UNCHANGED aside

\* refresh() continues after `await fetchAll()`; when it was the second of
\* the two, initPayments() goes on to call both subscribe(), and the backend
\* registers their handlers
RefreshResolve(i, m) ==
    /\ init[i].rf[m] = "read"
    /\ LET fetched == fetchAll(m, init[i].snap[m])
           both == /\ init[i].pc = "refreshing"
                   /\ \A k \in Coll \ {m} : init[i].rf[k] = "done"
       IN /\ cache' = [cache EXCEPT ![m] = refresh(cache[m], fetched)]
          /\ init' = [init EXCEPT
                 ![i].rf[m] = "done",
                 ![i].snap[m] = <<>>,
                 ![i].pc = IF both THEN "subscribing" ELSE @,
                 ![i].sb = IF both THEN [k \in Coll |-> "established"] ELSE @]
          /\ handlers' = IF both THEN [k \in Coll |-> handlers[k] \cup {i}]
                         ELSE handlers
          /\ last' = [op |-> "refresh", coll |-> m, fetched |-> fetched,
                      before |-> cache[m]]
    /\ UNCHANGED <<db, nextId, rt, unsub, loading, error, mounted,
                   ninit, op, nops>>
    /\ UNCHANGED aside

\* subscribe() continues after its await: unsub = <the returned function>;
\* when it was the second of the two, initPayments() reaches its finally
SubscribeResolve(i, m) ==
    /\ init[i].sb[m] = "established"
    /\ LET both == \A k \in Coll \ {m} : init[i].sb[k] = "done"
       IN /\ init' = [init EXCEPT ![i].sb[m] = "done",
                                  ![i].pc = IF both THEN "done" ELSE @]
          /\ loading' = IF both THEN FALSE ELSE loading
    /\ unsub' = [unsub EXCEPT ![m] = i]
    /\ last' = NoLast
    /\ UNCHANGED <<db, nextId, handlers, rt, cache, error, mounted, ninit,
                   op, nops>>
    /\ UNCHANGED aside

\* unsubscribe(): unsub?.(); unsub = undefined
unsubscribe(m, registered) ==
    IF unsub[m] = NoHandler THEN registered ELSE registered \ {unsub[m]}

\* useEffect cleanup: cleanupPayments()
Unmount ==
    /\ mounted
    /\ mounted' = FALSE
    /\ handlers' = [m \in Coll |-> unsubscribe(m, handlers[m])]
    /\ unsub' = [m \in Coll |-> NoHandler]
    /\ cache' = [m \in Coll |-> <<>>]
    /\ loading' = TRUE
    /\ error' = "null"
    /\ last' = [op |-> "cleanup"]
    /\ UNCHANGED <<db, nextId, rt, ninit, init, op, nops>>
    /\ UNCHANGED aside

\* ---- realtime ----

RECURSIVE Dispatch(_, _, _, _)
Dispatch(n, m, current, e) ==
    IF n = 0 THEN current ELSE Dispatch(n - 1, m, handler(m, current, e), e)

\* the next realtime event of a collection reaches the client and is given
\* to every handler registered for it
Deliver(m) ==
    /\ rt[m] # <<>>
    /\ LET e == Head(rt[m])
       IN /\ cache' = [cache EXCEPT
                 ![m] = Dispatch(Cardinality(handlers[m]), m, @, e)]
          /\ op' = IF /\ op.stage \in {"committed", "resolved"}
                      /\ op.coll = m /\ op.mid = e.mid /\ handlers[m] # {}
                   THEN [op EXCEPT !.realtime = TRUE,
                                   !.first = IF @ = "none" THEN "realtime" ELSE @]
                   ELSE op
    /\ rt' = [rt EXCEPT ![m] = Tail(@)]
    /\ last' = NoLast
    /\ UNCHANGED <<db, nextId, handlers, unsub, loading, error, mounted,
                   ninit, init, nops>>
    /\ UNCHANGED aside

\* ---- local CRUD calls ----

\* addProvider / addPayment / updateProvider / updatePayment /
\* deleteProvider / deletePayment up to their await; the backend performs
\* the create / update / delete and sends the realtime events
OpCall(kind, m, target, input) ==
    /\ mounted
    /\ op.stage \in {"none", "resolved", "rejected"}
    /\ nops < MaxOps
    \* the forms edit and delete the entries the route lists
    /\ kind = "create" \/ (target \in Ids(cache[m]) /\ target \in Ids(db[m]))
    /\ (kind = "create" /\ m = "payments") => UniqueSystem(db[m], input.serverId)
    /\ nops' = nops + 1
    /\ LET id == IF kind = "create" THEN nextId[m] ELSE target
           record == IF kind = "create"
                     THEN CreateRecord(m, id, input)
                     ELSE IF kind = "update"
                     THEN Fields(pbUpdates(m, input), RecordOf(db[m], id))
                     ELSE RecordOf(db[m], id)
           table == IF kind = "create" THEN Append(db[m], record)
                    ELSE IF kind = "update"
                    THEN [i \in 1..Len(db[m]) |->
                            IF db[m][i].id = id THEN record ELSE db[m][i]]
                    ELSE SelectSeq(db[m], LAMBDA r : r.id # id)
           cascaded == IF kind = "delete" THEN Cascaded(m, id) ELSE <<>>
           event == [action |-> kind, record |-> record, mid |-> nops + 1]
       IN /\ db' = [k \in Coll |->
                     IF k = m THEN table
                     ELSE IF cascaded # <<>>
                     THEN SelectSeq(db[k], LAMBDA r : r.provider # id)
                     ELSE db[k]]
          /\ nextId' = [nextId EXCEPT
                 ![m] = IF kind = "create" THEN @ + 1 ELSE @]
          /\ rt' = [k \in Coll |->
                     IF k = m THEN Emit(rt[k], k, <<event>>)
                     ELSE Emit(rt[k], k, DeleteEvents(cascaded, nops + 1))]
          /\ op' = [stage |-> "committed", kind |-> kind, coll |-> m,
                    id |-> id, record |-> record, mid |-> nops + 1,
                    direct |-> FALSE, realtime |-> FALSE, first |-> "none"]
    /\ last' = NoLast
    /\ UNCHANGED <<handlers, cache, unsub, loading, error, mounted, ninit,
                   init>>
    /\ UNCHANGED aside

\* the local call continues after its await and returns
OpResolve ==
    /\ op.stage = "committed"
    /\ cache' = IF op.kind = "delete"
                THEN directDelete(op.coll, cache, op.id)
                ELSE [cache EXCEPT
                        ![op.coll] = directResponse(op.coll, @, op.record)]
    /\ op' = [op EXCEPT !.stage = "resolved", !.direct = TRUE,
                        !.first = IF @ = "none" THEN "direct" ELSE @]
    /\ last' = [op |-> op.kind, coll |-> op.coll, id |-> op.id,
                record |-> Convert(op.coll, op.record)]
    /\ UNCHANGED <<db, nextId, handlers, rt, unsub, loading, error, mounted,
                   ninit, init, nops>>
    /\ UNCHANGED aside

Next ==
    \/ Mount
    \/ Unmount
    \/ \E i \in 1..MaxInits, m \in Coll : ListServe(i, m)
    \/ \E i \in 1..MaxInits, m \in Coll : RefreshResolve(i, m)
    \/ \E i \in 1..MaxInits, m \in Coll : SubscribeResolve(i, m)
    \/ \E m \in Coll : Deliver(m)
    \/ \E kind \in {"create", "update", "delete"}, m \in Coll :
         \E id \in (IF kind = "create" THEN {0} ELSE Ids(db[m])) :
           \E input \in Inputs(kind, m) : OpCall(kind, m, id, input)
    \/ OpResolve

Spec == Init /\ [][Next]_vars


\* ---- the store with failing remote calls ----

MaxFails == 1   \* remote calls that fail in one behaviour

\* variant of rejected: the store is emptied when the call fails
rejected_clear(m, current) == [cache |-> <<>>, resend |-> FALSE]

\* refresh / addProvider .. deletePayment when their remote call rejects:
\* the await throws, nothing after it runs; the store is not written and
\* the call is not issued again
rejected(m, current) == [cache |-> current, resend |-> FALSE]

\* variant of initCatch: the catch block empties the stores
initCatch_rollback(caches) == [m \in Coll |-> <<>>]

\* the catch block of initPayments(): console.error and
\* $paymentsError.set(..); the stores are not touched
initCatch(caches) == caches

\* the list request of a refresh() fails (network, backend)
ListFail(i, m) ==
    /\ init[i].rf[m] = "sent"
    /\ nfail < MaxFails
    /\ nfail' = nfail + 1
    /\ init' = [init EXCEPT ![i].rf[m] = "failing"]
    /\ last' = NoLast
    /\ UNCHANGED <<db, nextId, handlers, rt, cache, unsub, loading, error,
                   mounted, ninit, op, nops>>
    /\ UNCHANGED <<rates, ratesLoading, lr, imp, calc, local>>

\* `await fetchAll()` throws in refresh(); Promise.all rejects with the
\* first rejection and initPayments() runs its catch and finally
RefreshReject(i, m) ==
    /\ init[i].rf[m] = "failing"
    /\ LET r == rejected(m, cache[m])
           caught == init[i].pc = "refreshing"
       IN /\ cache' = [cache EXCEPT ![m] = r.cache]
          /\ init' = [init EXCEPT
                 ![i].rf[m] = IF r.resend THEN "sent" ELSE "failed",
                 ![i].pc = IF caught THEN "failed" ELSE @]
          /\ error' = IF caught THEN "Failed to load payments data" ELSE error
          /\ loading' = IF caught THEN FALSE ELSE loading
          /\ last' = [op |-> "rejected", call |-> "refresh", coll |-> m,
                      before |-> cache, resend |-> r.resend]
    /\ UNCHANGED <<db, nextId, handlers, rt, unsub, mounted, ninit, op, nops>>
    /\ UNCHANGED aside

\* RefreshResolve of the second refresh() where the subscribe() calls of
\* the collections in F fail to establish
RefreshResolveSubFail(i, m, F) ==
    /\ init[i].rf[m] = "read"
    /\ init[i].pc = "refreshing"
    /\ \A k \in Coll \ {m} : init[i].rf[k] = "done"
    /\ F # {}
    /\ nfail + Cardinality(F) <= MaxFails
    /\ nfail' = nfail + Cardinality(F)
    /\ LET fetched == fetchAll(m, init[i].snap[m])
       IN /\ cache' = [cache EXCEPT ![m] = refresh(cache[m], fetched)]
          /\ init' = [init EXCEPT
                 ![i].rf[m] = "done",
                 ![i].snap[m] = <<>>,
                 ![i].pc = "subscribing",
                 ![i].sb = [k \in Coll |->
                              IF k \in F THEN "failing" ELSE "established"]]
          /\ handlers' = [k \in Coll |->
                            IF k \in F THEN handlers[k]
                            ELSE handlers[k] \cup {i}]
          /\ last' = [op |-> "refresh", coll |-> m, fetched |-> fetched,
                      before |-> cache[m]]
    /\ UNCHANGED <<db, nextId, rt, unsub, loading, error, mounted,
                   ninit, op, nops>>
    /\ UNCHANGED <<rates, ratesLoading, lr, imp, calc, local>>

\* `await pb.collection(m).subscribe(..)` throws in subscribe();
\* Promise.all rejects and initPayments() runs its catch and finally
SubscribeReject(i, m) ==
    /\ init[i].sb[m] = "failing"
    /\ LET caught == init[i].pc = "subscribing"
       IN /\ init' = [init EXCEPT ![i].sb[m] = "failed",
                                  ![i].pc = IF caught THEN "failed" ELSE @]
          /\ cache' = IF caught THEN initCatch(cache) ELSE cache
          /\ error' = IF caught THEN "Failed to load payments data" ELSE error
          /\ loading' = IF caught THEN FALSE ELSE loading
          /\ last' = [op |-> "subscribeRejected", coll |-> m,
                      caught |-> caught, before |-> cache]
    /\ UNCHANGED <<db, nextId, handlers, rt, unsub, mounted, ninit, op, nops>>
    /\ UNCHANGED aside

\* addProvider .. deletePayment up to their await, the backend refusing
\* the create / update / delete
OpCallFail(kind, m, target, input) ==
    /\ mounted
    /\ op.stage \in {"none", "resolved", "rejected"}
    /\ nops < MaxOps
    /\ nfail < MaxFails
    /\ kind = "create" \/ target \in Ids(cache[m])
    /\ nops' = nops + 1
    /\ nfail' = nfail + 1
    /\ op' = [stage |-> "failing", kind |-> kind, coll |-> m, id |-> target,
              record |-> Undef, mid |-> nops + 1,
              direct |-> FALSE, realtime |-> FALSE, first |-> "none"]
    /\ last' = NoLast
    /\ UNCHANGED <<db, nextId, handlers, rt, cache, unsub, loading, error,
                   mounted, ninit, init>>
    /\ UNCHANGED <<rates, ratesLoading, lr, imp, calc, local>>

\* the local call's await throws: the call rejects to its caller
OpReject ==
    /\ op.stage = "failing"
    /\ LET r == rejected(op.coll, cache[op.coll])
       IN /\ cache' = [cache EXCEPT ![op.coll] = r.cache]
          /\ op' = [op EXCEPT !.stage = IF r.resend THEN "failing"
                                        ELSE "rejected"]
          /\ last' = [op |-> "rejected", call |-> op.kind, coll |-> op.coll,
                      before |-> cache, resend |-> r.resend]
    /\ UNCHANGED <<db, nextId, handlers, rt, unsub, loading, error, mounted,
                   ninit, init, nops>>
    /\ UNCHANGED aside

NextFail ==
    \/ Next
    \/ \E i \in 1..MaxInits, m \in Coll : ListFail(i, m)
    \/ \E i \in 1..MaxInits, m \in Coll : RefreshReject(i, m)
    \/ \E i \in 1..MaxInits, m \in Coll :
         \E F \in SUBSET Coll : RefreshResolveSubFail(i, m, F)
    \/ \E i \in 1..MaxInits, m \in Coll : SubscribeReject(i, m)
    \/ \E kind \in {"create", "update", "delete"}, m \in Coll :
         \E id \in (IF kind = "create" THEN {0} ELSE Ids(cache[m])) :
           \E input \in Inputs(kind, m) : OpCallFail(kind, m, id, input)
    \/ OpReject

SpecFail == Init /\ [][NextFail]_vars

\* ---- currency.ts: loadRates() against the rate source ----

\* what the rates module leaves alone
store == <<db, nextId, handlers, rt, cache, unsub, loading, error, mounted, ninit, init, op, nops, nfail, imp, calc, local>>

FetchTimeout == 6000   \* fetchWithTimeout(CBR_URL, 6000)
RetryDelay == 2000     \* setTimeout(r, 2000)

\* JSON values found under Valute.USD.Value / Valute.EUR.Value
JsNum(v) == [t |-> "number", n |-> v]
JsStr(x) == [t |-> "string", s |-> x]
JsBool(v) == [t |-> "boolean", b |-> v]
JsNull == [t |-> "null"]
JsObject == [t |-> "object"]
\* what optional chaining gives when a level of the path is missing
JsUndefined == [t |-> "undefined"]

NaN == [fin |-> FALSE, v |-> 0]
Finite(v) == [fin |-> TRUE, v |-> v]

\* the numeric strings of the sample bodies
StringToNumber(x) == IF x = "" THEN Finite(0) ELSE NaN

\* Number(value) of JavaScript
Number(x) ==
    CASE x.t = "number" -> Finite(x.n)
      [] x.t = "null" -> Finite(0)
      [] x.t = "boolean" -> Finite(IF x.b THEN Scale ELSE 0)
      [] x.t = "string" -> StringToNumber(x.s)
      [] OTHER -> NaN

\* Number.isFinite
isFinite(n) == n.fin

\* a parsed body: the document with its two values and its date, or a
\* JSON value that has no Valute at all
Doc(usd, eur, date) == [t |-> "doc", USD |-> usd, EUR |-> eur, Date |-> date]

\* data?.Valute?.<code>?.Value
Value(data, code) == IF data.t = "doc" THEN data[code] ELSE JsUndefined

JsValues ==
    {JsNum(9000), JsNull, JsUndefined, JsStr(""), JsStr("abc"),
     JsBool(TRUE), JsObject}

Payloads ==
    {Doc(u, JsNum(10000), "2024-01-01") : u \in JsValues}
        \cup {Doc(JsNum(9000), e, "2024-01-01") : e \in JsValues}
        \cup {Doc(JsNum(9000), JsNum(10000), Undef), JsNull}

NoBody == [t |-> "none"]
\* what the upstream may do with the body after it answered the headers
Bodies == Payloads \cup {[t |-> "unparseable"], [t |-> "never"]}

\* variant of liveRates: the markup is applied to USD only
liveRates_usdOnly(usd, eur, date) == [USD |-> Mul(usd, MARKUP), EUR |-> eur, updated |-> IF date = Undef THEN "now" ELSE date, source |-> "cbr"]

\* the snapshot built from a valid payload
liveRates(usd, eur, date) == [USD |-> Mul(usd, MARKUP), EUR |-> Mul(eur, MARKUP), updated |-> IF date = Undef THEN "now" ELSE date, source |-> "cbr"]

\* variant of outerCatch: the error is thrown on to the caller
outerCatch_rethrow(e) == [settled |-> "rejected", value |-> FALLBACK_RATES, publish |-> FALSE]

\* the outer catch block: setRates(FALLBACK_RATES); return FALLBACK_RATES
outerCatch(e) == [settled |-> "resolved", value |-> FALLBACK_RATES, publish |-> TRUE]

\* variant of loadRatesFinally: the flag is left as it is
loadRatesFinally_skip(flag) == flag

\* the finally block: $ratesLoading.set(false)
loadRatesFinally(flag) == FALSE

\* the call returns or throws: setRates, finally
Settle(k, c, o, outcome) ==
    /\ lr' = [lr EXCEPT ![k] = [c EXCEPT !.pc = "done",
                                        !.outcome = Append(@, outcome),
                                        !.settled = o.settled,
                                        !.result = o.value]]
    /\ rates' = IF o.publish THEN o.value ELSE rates
    /\ ratesLoading' = loadRatesFinally(ratesLoading)
    /\ last' = [op |-> "loadRates", k |-> k]

\* an error thrown in call k: inside the inner try of the first attempt it
\* is caught by the inner catch, which starts the backoff wait; anywhere
\* else it reaches the outer catch
Throw(k, c, e, inner) ==
    IF inner /\ c.attempts = 1
    THEN /\ lr' = [lr EXCEPT ![k] = [c EXCEPT !.pc = "backoff",
                                             !.outcome = Append(@, e)]]
         /\ last' = NoLast
         /\ UNCHANGED <<rates, ratesLoading>>
    ELSE Settle(k, c, outerCatch(e), e)

\* loadRates() up to the first await
loadRates(k) ==
    /\ lr[k].pc = "idle"
    /\ \A j \in 1..(k - 1) : lr[j].pc # "idle"
    /\ ratesLoading' = TRUE
    /\ lr' = [lr EXCEPT ![k] =
                 [pc |-> "fetch", attempts |-> 1, timer |-> FetchTimeout,
                  body |-> NoBody, outcome |-> <<>>, waited |-> 0,
                  data |-> NoBody, settled |-> "pending",
                  result |-> FALLBACK_RATES]]
    /\ last' = NoLast
    /\ UNCHANGED rates
    /\ UNCHANGED store

\* the upstream never answers: the timer fires, controller.abort() makes
\* fetch reject
FetchAbort(k) ==
    /\ lr[k].pc = "fetch"
    /\ lr[k].timer = FetchTimeout
    /\ Throw(k, [lr[k] EXCEPT !.timer = 0], "timeout", TRUE)
    /\ UNCHANGED store

\* fetch rejects (network error); finally clearTimeout
FetchNetworkError(k) ==
    /\ lr[k].pc = "fetch"
    /\ Throw(k, [lr[k] EXCEPT !.timer = 0], "network", TRUE)
    /\ UNCHANGED store

\* the response headers arrive: fetch resolves, finally clearTimeout,
\* `if (!res.ok) throw`, then res.json() is awaited
FetchResponse(k, ok, body) ==
    /\ lr[k].pc = "fetch"
    /\ LET c == [lr[k] EXCEPT !.timer = 0]
       IN IF ~ok
          THEN Throw(k, c, "status", TRUE)
          ELSE /\ lr' = [lr EXCEPT ![k] = [c EXCEPT !.pc = "json",
                                                   !.body = body]]
               /\ last' = NoLast
               /\ UNCHANGED <<rates, ratesLoading>>
    /\ UNCHANGED store

\* the body ends: res.json() resolves or rejects, then lines 40-53
ResJson(k) ==
    /\ lr[k].pc = "json"
    /\ lr[k].body.t # "never"
    /\ LET c == [lr[k] EXCEPT !.body = NoBody]
           data == lr[k].body
           usd == Number(Value(data, "USD"))
           eur == Number(Value(data, "EUR"))
       IN IF data.t = "unparseable"
          THEN Throw(k, c, "unparseable", TRUE)
          ELSE IF isFinite(usd) /\ isFinite(eur)
               THEN Settle(k, [c EXCEPT !.data = data],
                           [settled |-> "resolved", publish |-> TRUE,
                            value |-> liveRates(usd.v, eur.v,
                                         IF data.t = "doc" THEN data.Date
                                         ELSE Undef)],
                           "ok")
               ELSE Throw(k, [c EXCEPT !.data = data], "shape", FALSE)
    /\ UNCHANGED store

\* the 2 s timer of the inner catch fires: second fetchWithTimeout
RetryTimer(k) ==
    /\ lr[k].pc = "backoff"
    /\ lr' = [lr EXCEPT ![k].pc = "fetch", ![k].attempts = 2,
                        ![k].timer = FetchTimeout, ![k].waited = RetryDelay]
    /\ last' = NoLast
    /\ UNCHANGED <<rates, ratesLoading>>
    /\ UNCHANGED store

\* the steps that carry a started call on
LoadStep(k) ==
    \/ FetchAbort(k)
    \/ FetchNetworkError(k)
    \/ \E body \in Bodies : FetchResponse(k, TRUE, body)
    \/ FetchResponse(k, FALSE, NoBody)
    \/ ResJson(k)
    \/ RetryTimer(k)

NextRates ==
    \/ \E k \in 1..MaxLoads : loadRates(k)
    \/ \E k \in 1..MaxLoads : FetchAbort(k)
    \/ \E k \in 1..MaxLoads : FetchNetworkError(k)
    \/ \E k \in 1..MaxLoads : \E body \in Bodies : FetchResponse(k, TRUE, body)
    \/ \E k \in 1..MaxLoads : FetchResponse(k, FALSE, NoBody)
    \/ \E k \in 1..MaxLoads : ResJson(k)
    \/ \E k \in 1..MaxLoads : RetryTimer(k)

SpecRates == Init /\ [][NextRates]_vars

\* ---- importPaymentsData() ----

MaxEntries == 2   \* elements of data.providers and of data.payments

\* what the import leaves alone
noimport == <<handlers, cache, unsub, loading, error, mounted, ninit, init, op, nops, nfail, rates, ratesLoading, lr, calc, local>>

\* elements of data.providers: exported providers with their old ids, or null
ProviderEntries ==
    {[id |-> o.id, name |-> o.name, url |-> "u", currencyDefault |-> Undef, notes |-> Undef] :
        o \in {[id |-> 7, name |-> "a"], [id |-> 8, name |-> "c"]}}
      \cup {JsNull}

\* elements of data.payments: payments of provider 7 for two systems, a
\* payment of a provider that is not in the document, or null
PaymentEntries ==
    {[serverId |-> o.serverId, providerId |-> o.providerId,
      period |-> "monthly", nextPayment |-> "2024-01-01", amount |-> 10,
      currency |-> "RUB", country |-> Undef, providerUrlOverride |-> Undef,
      notes |-> Undef] :
        o \in {[serverId |-> "s2", providerId |-> 7],
               [serverId |-> "s3", providerId |-> 7],
               [serverId |-> "s2", providerId |-> 9]}}
      \cup {JsNull}

ListsOf(S) == UNION {[1..n -> S] : n \in 0..MaxEntries}

\* the documents JSON.parse returns
Documents == [providers : ListsOf(ProviderEntries), payments : ListsOf(PaymentEntries)]

\* a jsonString that JSON.parse rejects
NotJson == [t |-> "not json"]

\* the result of the outer catch
ParseError == [success |-> FALSE, errors |-> <<[list |-> "document", i |-> 0, text |-> "Parse error"]>>]

\* providerIdMap, a set of <<old id, new id>>
MapHas(map, k) == \E e \in map : e[1] = k
\* variant of MapGet: the id of the document is used as it is
MapGet_old(map, k) == k

MapGet(map, k) == (CHOOSE e \in map : e[1] = k)[2]
MapPut(map, k, v) == {e \in map : e[1] # k} \cup {<<k, v>>}

\* the next element of the two loops
Advance(doc, list, i) ==
    IF list = "providers" /\ i + 1 <= Len(doc.providers)
    THEN [pc |-> "providers", i |-> i + 1]
    ELSE IF list = "providers" THEN [pc |-> "payments", i |-> 1]
    ELSE [pc |-> "payments", i |-> i + 1]

\* importPaymentsData(jsonString) up to the providers loop (lines 319-326);
\* JSON.parse throws into the outer catch when the string is no JSON
importPaymentsData(json) ==
    /\ imp.pc = "idle"
    /\ imp' = IF json = NotJson
              THEN [pc |-> "done", i |-> 1,
                    doc |-> [providers |-> <<>>, payments |-> <<>>],
                    parsed |-> FALSE, map |-> {}, errors |-> <<>>,
                    calls |-> {}, failed |-> {}, processed |-> {},
                    made |-> <<>>, result |-> ParseError]
              ELSE [pc |-> IF json.providers = <<>> THEN "payments"
                           ELSE "providers",
                    i |-> 1, doc |-> json, parsed |-> TRUE, map |-> {},
                    errors |-> <<>>, calls |-> {}, failed |-> {},
                    processed |-> {}, made |-> <<>>,
                    result |-> [success |-> FALSE, errors |-> <<>>]]
    /\ last' = NoLast
    /\ UNCHANGED <<db, nextId, rt>>
    /\ UNCHANGED noimport

\* one round of the providers loop, the remote create succeeding (ok) or
\* rejecting
ImportProvider(ok) ==
    /\ imp.pc = "providers"
    /\ LET provider == imp.doc.providers[imp.i]
           here == <<"providers", imp.i>>
           next == Advance(imp.doc, "providers", imp.i)
           id == nextId["providers"]
       IN IF provider = JsNull
          THEN \* provider.name throws in the try and again in the template
               \* literal of the catch: the outer catch returns
               /\ ok
               /\ imp' = [imp EXCEPT
                     !.pc = "done",
                     !.processed = @ \cup {here},
                     !.failed = @ \cup {here},
                     !.result = ParseError]
               /\ UNCHANGED <<db, nextId, rt>>
          ELSE IF ok
          THEN LET record == CreateRecord("providers", id,
                                 [name |-> provider.name, url |-> provider.url,
                                  currencyDefault |-> provider.currencyDefault,
                                  notes |-> provider.notes])
               IN /\ db' = [db EXCEPT !["providers"] = Append(@, record)]
                  /\ nextId' = [nextId EXCEPT !["providers"] = @ + 1]
                  /\ rt' = [rt EXCEPT !["providers"] =
                               Emit(@, "providers",
                                    <<[action |-> "create", record |-> record,
                                       mid |-> 0]>>)]
                  /\ imp' = [imp EXCEPT
                        !.pc = next.pc, !.i = next.i,
                        !.processed = @ \cup {here},
                        !.calls = @ \cup {here},
                        !.made = Append(@, [list |-> "providers", i |-> imp.i,
                                            id |-> toProvider(record).id,
                                            provider |-> 0]),
                        !.map = MapPut(@, provider.id,
                                       toProvider(record).id)]
          ELSE /\ imp' = [imp EXCEPT
                     !.pc = next.pc, !.i = next.i,
                     !.processed = @ \cup {here},
                     !.calls = @ \cup {here},
                     !.failed = @ \cup {here},
                     !.errors = Append(@, [list |-> "providers", i |-> imp.i,
                                           text |-> "Provider"])]
               /\ UNCHANGED <<db, nextId, rt>>
    /\ last' = NoLast
    /\ UNCHANGED noimport

\* one round of the payments loop
ImportPayment(ok) ==
    /\ imp.pc = "payments"
    /\ imp.i <= Len(imp.doc.payments)
    /\ LET payment == imp.doc.payments[imp.i]
           here == <<"payments", imp.i>>
           id == nextId["payments"]
       IN IF payment = JsNull
          THEN \* payment.providerId throws; the catch pushes `Payment: ${e}`
               /\ ok
               /\ imp' = [imp EXCEPT
                     !.i = @ + 1,
                     !.processed = @ \cup {here},
                     !.failed = @ \cup {here},
                     !.errors = Append(@, [list |-> "payments", i |-> imp.i,
                                           text |-> "Payment"])]
               /\ UNCHANGED <<db, nextId, rt>>
          ELSE IF ~MapHas(imp.map, payment.providerId)
          THEN /\ ok
               /\ imp' = [imp EXCEPT
                     !.i = @ + 1,
                     !.processed = @ \cup {here},
                     !.failed = @ \cup {here},
                     !.errors = Append(@, [list |-> "payments", i |-> imp.i,
                                           text |-> "provider not found"])]
               /\ UNCHANGED <<db, nextId, rt>>
          ELSE IF ok
          THEN LET record == CreateRecord("payments", id,
                                 [payment EXCEPT !.providerId =
                                     MapGet(imp.map, payment.providerId)])
               IN /\ UniqueSystem(db["payments"], payment.serverId)
                  /\ db' = [db EXCEPT !["payments"] = Append(@, record)]
                  /\ nextId' = [nextId EXCEPT !["payments"] = @ + 1]
                  /\ rt' = [rt EXCEPT !["payments"] =
                               Emit(@, "payments",
                                    <<[action |-> "create", record |-> record,
                                       mid |-> 0]>>)]
                  /\ imp' = [imp EXCEPT
                        !.i = @ + 1,
                        !.processed = @ \cup {here},
                        !.made = Append(@, [list |-> "payments", i |-> imp.i,
                                            id |-> toPayment(record).id,
                                            provider |->
                                                toPayment(record).providerId]),
                        !.calls = @ \cup {here}]
          ELSE /\ imp' = [imp EXCEPT
                     !.i = @ + 1,
                     !.processed = @ \cup {here},
                     !.calls = @ \cup {here},
                     !.failed = @ \cup {here},
                     !.errors = Append(@, [list |-> "payments", i |-> imp.i,
                                           text |-> "Payment"])]
               /\ UNCHANGED <<db, nextId, rt>>
    /\ last' = NoLast
    /\ UNCHANGED noimport

\* return { success: errors.length === 0, errors }
ImportReturn ==
    /\ imp.pc = "payments"
    /\ imp.i > Len(imp.doc.payments)
    /\ imp' = [imp EXCEPT
          !.pc = "done",
          !.result = [success |-> imp.errors = <<>>, errors |-> imp.errors]]
    /\ last' = NoLast
    /\ UNCHANGED <<db, nextId, rt>>
    /\ UNCHANGED noimport

NextImport ==
    \/ \E json \in Documents \cup {NotJson} : importPaymentsData(json)
    \/ \E ok \in BOOLEAN : ImportProvider(ok)
    \/ \E ok \in BOOLEAN : ImportPayment(ok)
    \/ ImportReturn

SpecImport == Init /\ [][NextImport]_vars

\* ---- currency.ts: the functions that only compute ----

MaxDay == 4      \* calendar days 1..MaxDay for today and for the due date
MaxFactor == 3   \* largest multiplier k tried for monthlyRub(k * a)

\* what these functions leave alone
nocalc == <<db, nextId, handlers, rt, cache, unsub, loading, error, mounted, ninit, init, op, nops, last, nfail, rates, ratesLoading, lr, imp, local>>

\* +Infinity: a number that is not finite and is no NaN (v = 1)
Infinity == [fin |-> FALSE, v |-> 1]

\* x <= n for a JS number x: false for NaN, false for +Infinity
Leq(x, n) == x.fin /\ x.v <= n

\* variant of getPaymentStatus: the critical band ends before day 1
getPaymentStatus_strict(days) == IF days.fin /\ days.v < 1 THEN "crit" ELSE IF Leq(days, 5) THEN "warn" ELSE "ok"

getPaymentStatus(days) == IF Leq(days, 1) THEN "crit" ELSE IF Leq(days, 5) THEN "warn" ELSE "ok"

\* 86400000 ms, counted in hours
DayHours == 24

\* a date string "YYYY-MM-DD" of calendar day d, and a string Date rejects
DateStr(d) == [t |-> "date", day |-> d]
BadDate == [t |-> "invalid"]

\* new Date(dateStr).getTime(): a date-only ISO string is UTC midnight
DateParse(x) == IF x.t = "date" THEN Finite(x.day * DayHours) ELSE NaN

\* a time zone: standard offset from UTC in hours and the calendar day on
\* which clocks go forward by one hour at 02:00 (0: no such day)
TimeZones == [off : {-5, 0, 3}, dst : {0, 2}]

\* the instant (hours, UTC) at which summer time starts in zone tz
DstStart(tz) == tz.dst * DayHours + 2 - tz.off

\* the UTC offset in force at instant t
Offset(tz, t) == tz.off + (IF tz.dst > 0 /\ t >= DstStart(tz) THEN 1 ELSE 0)

\* getFullYear() / getMonth() / getDate(): the local calendar day of t
getDate(tz, t) == (t + Offset(tz, t)) \div DayHours

\* new Date(y, m, d): the instant of local midnight of calendar day d
LocalMidnight(tz, d) ==
    LET standard == d * DayHours - tz.off
    IN IF tz.dst > 0 /\ standard - 1 >= DstStart(tz) THEN standard - 1
       ELSE standard

\* new Date(): the instant at which the local clock shows `hour` on `day`
Now(tz, day, hour) ==
    LET standard == day * DayHours + hour - tz.off
    IN IF tz.dst > 0 /\ standard - 1 >= DstStart(tz) THEN standard - 1
       ELSE standard

\* variant of daysUntilPayment: an unparseable date counts as due today
daysUntilPayment_zero(dateStr, now, tz) ==
    LET due == DateParse(dateStr)
    IN IF ~due.fin THEN Finite(0)
       ELSE Finite((LocalMidnight(tz, getDate(tz, due.v))
                      - LocalMidnight(tz, getDate(tz, now))) \div DayHours)

daysUntilPayment(dateStr, now, tz) ==
    LET due == DateParse(dateStr)
    IN IF ~due.fin THEN Infinity
       ELSE Finite((LocalMidnight(tz, getDate(tz, due.v))
                      - LocalMidnight(tz, getDate(tz, now))) \div DayHours)

\* variant of toRub: a currency that is not known converts to nothing
toRub_zero(amount, currency, rs) ==
    IF currency = "RUB" THEN amount
    ELSE IF currency = "USD" THEN Mul(amount, rs.USD)
    ELSE IF currency = "EUR" THEN Mul(amount, rs.EUR)
    ELSE 0

toRub(amount, currency, rs) ==
    IF currency = "RUB" THEN amount
    ELSE IF currency = "USD" THEN Mul(amount, rs.USD)
    ELSE IF currency = "EUR" THEN Mul(amount, rs.EUR)
    ELSE amount

\* the factors are kept as fractions n / d
Ratio(n, d) == [n |-> n, d |-> d]
RDiv(p, q) == Ratio(p.n * q.d, p.d * q.n)
REq(p, q) == p.n * q.d = q.n * p.d

\* variant of getMonthlyFactor: a period that is not known counts for nothing
getMonthlyFactor_zero(period) ==
    CASE period = "daily" -> Ratio(30, 1)
      [] period = "weekly" -> RDiv(RDiv(Ratio(365, 1), Ratio(12, 1)), Ratio(7, 1))
      [] period = "monthly" -> Ratio(1, 1)
      [] period = "quarterly" -> RDiv(Ratio(1, 1), Ratio(3, 1))
      [] period = "semiannual" -> RDiv(Ratio(1, 1), Ratio(6, 1))
      [] period = "annual" -> RDiv(Ratio(1, 1), Ratio(12, 1))
      [] OTHER -> Ratio(0, 1)

getMonthlyFactor(period) ==
    CASE period = "daily" -> Ratio(30, 1)
      [] period = "weekly" -> RDiv(RDiv(Ratio(365, 1), Ratio(12, 1)), Ratio(7, 1))
      [] period = "monthly" -> Ratio(1, 1)
      [] period = "quarterly" -> RDiv(Ratio(1, 1), Ratio(3, 1))
      [] period = "semiannual" -> RDiv(Ratio(1, 1), Ratio(6, 1))
      [] period = "annual" -> RDiv(Ratio(1, 1), Ratio(12, 1))
      [] OTHER -> Ratio(1, 1)

\* x * factor; like every product of two numbers it is rounded to a number
\* the representation has (here: to hundredths)
Times(x, f) == (x * f.n) \div f.d

\* variant of monthlyRub: the period is ignored
monthlyRub_noFactor(amount, currency, period, rs) == toRub(amount, currency, rs)

monthlyRub(amount, currency, period, rs) == Times(toRub(amount, currency, rs), getMonthlyFactor(period))

\* inputs
DaysValues == {Finite(d) : d \in -2..(MaxDay + 3)} \cup {Infinity}
DateStrings == {DateStr(d) : d \in 1..MaxDay} \cup {BadDate}
Currencies == {"RUB", "USD", "EUR", "GBP", Undef}
Periods == {"daily", "weekly", "monthly", "quarterly", "semiannual", "annual", "biweekly", Undef}
Amounts == {0, 1, 150, 1000, 1999}
RateSnapshots == {FALLBACK_RATES, liveRates(9000, 10000, Undef)}

Classify(days) ==
    /\ calc = NoCalc
    /\ calc' = [fn |-> "getPaymentStatus", days |-> days,
                out |-> getPaymentStatus(days)]
    /\ UNCHANGED nocalc

DaysUntil(dateStr, today, hour, tz) ==
    /\ calc = NoCalc
    /\ calc' = [fn |-> "daysUntilPayment", dateStr |-> dateStr,
                today |-> today, hour |-> hour, tz |-> tz,
                out |-> daysUntilPayment(dateStr, Now(tz, today, hour), tz)]
    /\ UNCHANGED nocalc

Factor(period) ==
    /\ calc = NoCalc
    /\ calc' = [fn |-> "getMonthlyFactor", period |-> period,
                out |-> getMonthlyFactor(period)]
    /\ UNCHANGED nocalc

ToBase(amount, currency, rs) ==
    /\ calc = NoCalc
    /\ calc' = [fn |-> "toRub", amount |-> amount, currency |-> currency,
                rates |-> rs, out |-> toRub(amount, currency, rs)]
    /\ UNCHANGED nocalc

\* monthlyRub of a, of b, of a + b and of k * a
MonthlyBase(a, b, k, currency, period, rs) ==
    /\ calc = NoCalc
    /\ calc' = [fn |-> "monthlyRub", a |-> a, b |-> b, k |-> k,
                currency |-> currency, period |-> period, rates |-> rs,
                out |-> monthlyRub(a, currency, period, rs),
                outB |-> monthlyRub(b, currency, period, rs),
                outSum |-> monthlyRub(a + b, currency, period, rs),
                outK |-> monthlyRub(k * a, currency, period, rs)]
    /\ UNCHANGED nocalc

NextCalc ==
    \/ \E days \in DaysValues : Classify(days)
    \/ \E dateStr \in DateStrings, today \in 1..MaxDay, hour \in {0, 12, 23}, tz \in TimeZones : DaysUntil(dateStr, today, hour, tz)
    \/ \E period \in Periods : Factor(period)
    \/ \E amount \in Amounts, currency \in Currencies, rs \in RateSnapshots : ToBase(amount, currency, rs)
    \/ \E a \in Amounts, b \in Amounts, k \in 2..MaxFactor, currency \in Currencies, period \in Periods, rs \in RateSnapshots : MonthlyBase(a, b, k, currency, period, rs)

SpecCalc == Init /\ [][NextCalc]_vars

\* ---- the cache primitives on their own ----

MaxId == 2      \* record ids 1..MaxId in the caches of SpecMerge
MaxBatch == 1   \* longest batch given to add

ProviderValues ==
    {[id |-> i, name |-> "a", url |-> "u", currencyDefault |-> Undef,
      notes |-> n] : i \in 1..MaxId, n \in {Undef, "n"}}

PaymentValues ==
    {[id |-> i, serverId |-> "s1", providerId |-> 1, period |-> "monthly",
      nextPayment |-> "2024-01-01", amount |-> 10, currency |-> "RUB",
      country |-> Undef, providerUrlOverride |-> Undef, notes |-> n] :
        i \in 1..MaxId, n \in {Undef, "n"}}

Values(m) == IF m = "providers" THEN ProviderValues ELSE PaymentValues

SeqsUpTo(S, n) == UNION {[1..k -> S] : k \in 0..n}

\* a cache as refresh() or add() leave it: no id twice
Caches(m) ==
    {c \in SeqsUpTo(Values(m), MaxId) :
        \A i, j \in 1..Len(c) : c[i].id = c[j].id => i = j}

InitMerge ==
    /\ cache \in [Coll -> UNION {Caches(m) : m \in Coll}]
    /\ \A m \in Coll : cache[m] \in Caches(m)
    /\ db = [m \in Coll |-> <<>>]
    /\ nextId = [m \in Coll |-> 1]
    /\ handlers = [m \in Coll |-> {}]
    /\ rt = [m \in Coll |-> <<>>]
    /\ unsub = [m \in Coll |-> NoHandler]
    /\ loading = TRUE
    /\ error = "null"
    /\ mounted = FALSE
    /\ ninit = 0
    /\ init = [i \in 1..MaxInits |-> InitCall]
    /\ op = NoOp
    /\ nops = 0
    /\ last = NoLast
    /\ InitAside

\* providerManager.add(records) / paymentManager.add(records), applied to
\* the drawn caches
Merge(m, records) ==
    /\ last = NoLast
    /\ cache' = [cache EXCEPT ![m] = add(@, records)]
    /\ last' = [op |-> "merge", coll |-> m, records |-> records,
                before |-> cache]
    /\ UNCHANGED <<db, nextId, handlers, rt, unsub, loading, error, mounted,
                   ninit, init, op, nops>>
    /\ UNCHANGED aside

\* providerManager.remove(ids) / paymentManager.remove(ids), applied to
\* the drawn caches
Remove(m, ids) ==
    /\ last = NoLast
    /\ cache' = [cache EXCEPT ![m] = remove(@, ids)]
    /\ last' = [op |-> "remove", coll |-> m, ids |-> ids, before |-> cache]
    /\ UNCHANGED <<db, nextId, handlers, rt, unsub, loading, error, mounted,
                   ninit, init, op, nops>>
    /\ UNCHANGED aside

NextMerge ==
    \/ \E m \in Coll : \E records \in SeqsUpTo(Values(m), MaxBatch) \ {<<>>} :
         Merge(m, records)
    \/ \E m \in Coll : \E ids \in SUBSET (1..MaxId) : Remove(m, ids)

SpecMerge == InitMerge /\ [][NextMerge]_vars

\* ---- exportPaymentsData ----

\* the optional fields of Provider and PaymentEntry: the only ones whose
\* value in a cached entry may be undefined
OptionalKeys == {"currencyDefault", "notes", "country", "providerUrlOverride"}

\* JSON.stringify of an object, read back: a key whose value is undefined
\* is not written
JsonObject(o) ==
    [k \in {x \in DOMAIN o : x \in OptionalKeys => o[x] # Undef} |-> o[k]]

\* JSON.stringify of an array of objects, read back
JsonList(s) == [i \in 1..Len(s) |-> JsonObject(s[i])]

\* the instants new Date() may return
Clock == {1, 2}

\* Date.prototype.toISOString
toISOString(t) ==
    IF t = 1 THEN "2024-01-01T00:00:00.000Z" ELSE "2024-06-01T12:30:00.000Z"

\* variant of ExportDocument: the payments are left out
ExportDocument_noPayments(providers, payments, now) ==
    [providers |-> JsonList(providers), payments |-> <<>>,
     exportedAt |-> toISOString(now)]

\* the document that the string returned by exportPaymentsData denotes
ExportDocument(providers, payments, now) ==
    [providers |-> JsonList(providers), payments |-> JsonList(payments),
     exportedAt |-> toISOString(now)]

\* caches and a rate snapshot as the store's handlers leave them
InitExport ==
    /\ cache \in [Coll -> UNION {Caches(m) : m \in Coll}]
    /\ \A m \in Coll : cache[m] \in Caches(m)
    /\ rates \in RateSnapshots
    /\ db = [m \in Coll |-> <<>>]
    /\ nextId = [m \in Coll |-> 1]
    /\ handlers = [m \in Coll |-> {}]
    /\ rt = [m \in Coll |-> <<>>]
    /\ unsub = [m \in Coll |-> NoHandler]
    /\ loading = FALSE
    /\ error = "null"
    /\ mounted = TRUE
    /\ ninit = 0
    /\ init = [i \in 1..MaxInits |-> InitCall]
    /\ op = NoOp
    /\ nops = 0
    /\ last = NoLast
    /\ nfail = 0
    /\ ratesLoading = FALSE
    /\ lr = [k \in 1..MaxLoads |-> IdleLoad]
    /\ imp = NoImport
    /\ calc = NoCalc
    /\ local = defaultState

\* exportPaymentsData(): reads $providers and $payments and the clock,
\* writes no store
exportPaymentsData(now) ==
    /\ calc = NoCalc
    /\ calc' = [fn |-> "exportPaymentsData", now |-> now,
                doc |-> ExportDocument(cache["providers"], cache["payments"], now),
                before |-> [cache |-> cache, rates |-> rates]]
    /\ UNCHANGED nocalc

NextExport == \E now \in Clock : exportPaymentsData(now)

SpecExport == InitExport /\ [][NextExport]_vars

\* ---- markPaymentPaid ----

Range(s) == {s[i] : i \in 1..Len(s)}

MaxPaidDay == 366   \* nextPayment dates 2024-01-01 .. 2024-12-31 (day 1..366)

\* the calendar of Date: day 0 is 2024-01-01
MonthLen(y, m) ==
    IF m = 2 THEN (IF y % 4 = 0 THEN 29 ELSE 28)
    ELSE IF m \in {4, 6, 9, 11} THEN 30 ELSE 31

\* the day number of January 1 of year y (2023 .. 2028)
RECURSIVE YearStart(_)
YearStart(y) ==
    IF y = 2024 THEN 0
    ELSE IF y > 2024
    THEN YearStart(y - 1) + (IF (y - 1) % 4 = 0 THEN 366 ELSE 365)
    ELSE YearStart(y + 1) - (IF y % 4 = 0 THEN 366 ELSE 365)

RECURSIVE MonthStart(_, _)
MonthStart(y, m) ==
    IF m = 1 THEN YearStart(y) ELSE MonthStart(y, m - 1) + MonthLen(y, m - 1)

\* MakeDay(year, month, date) of Date: a month past December runs into the
\* next year, a date past the end of the month into the next month
MakeDay(y, m, d) ==
    MonthStart(y + ((m - 1) \div 12), ((m - 1) % 12) + 1) + d - 1

\* year, month and date of day number n
YearFromDay(n) == CHOOSE y \in 2023..2027 : YearStart(y) <= n /\ n < YearStart(y + 1)
MonthFromDay(n) == CHOOSE m \in 1..12 : MonthStart(YearFromDay(n), m) <= n /\ n < MonthStart(YearFromDay(n), m) + MonthLen(YearFromDay(n), m)
DateFromDay(n) == n - MonthStart(YearFromDay(n), MonthFromDay(n)) + 1

\* the instant (hours since 2024-01-01T00:00Z) of hour h UTC on a date
At(y, m, d, h) == MakeDay(y, m, d) * DayHours + h

\* time zones of the browser: standard offset in hours and the periods
\* <<start, end>> (UTC instants) in which clocks are one hour ahead
\* America/Bogota, America/New_York, UTC, Europe/Berlin, Europe/Moscow
Zones ==
    {[off |-> -5, summer |-> {}],
     [off |-> -5, summer |-> {<<At(2024, 3, 10, 7), At(2024, 11, 3, 6)>>,
                              <<At(2025, 3, 9, 7), At(2025, 11, 2, 6)>>}],
     [off |-> 0, summer |-> {}],
     [off |-> 1, summer |-> {<<At(2024, 3, 31, 1), At(2024, 10, 27, 1)>>,
                             <<At(2025, 3, 30, 1), At(2025, 10, 26, 1)>>}],
     [off |-> 3, summer |-> {}]}

\* the UTC offset in force in zone z at instant t
ZoneOffset(z, t) ==
    z.off + (IF \E p \in z.summer : p[1] <= t /\ t < p[2] THEN 1 ELSE 0)

\* UTC(w) of Date: the instant at which the local clock of zone z shows w;
\* a clock time that occurs twice or never is read with the offset in
\* force before the change
ToUTC(z, w) ==
    LET std == w - z.off
        sum == w - z.off - 1
    IN IF sum + ZoneOffset(z, sum) = w THEN sum
       ELSE IF std + ZoneOffset(z, std) = w THEN std
       ELSE IF ZoneOffset(z, std - 1) = z.off THEN std ELSE sum

\* setDate(getDate() + dd) / setMonth(getMonth() + dm) /
\* setFullYear(getFullYear() + dy): the local calendar fields are changed,
\* the local time of day is kept
SetLocal(z, t, dy, dm, dd) ==
    LET w == t + ZoneOffset(z, t)
        n == w \div DayHours
        h == w % DayHours
        day == MakeDay(YearFromDay(n) + dy, MonthFromDay(n) + dm, DateFromDay(n) + dd)
    IN ToUTC(z, day * DayHours + h)

\* the date markPaymentPaid sends: new Date(nextPayment), the switch over
\* the period, toISOString().split('T')[0] (the UTC calendar day)
NextDate(z, nextPayment, period) ==
    LET t == DateParse(nextPayment).v
        u ==    CASE period = "daily" -> SetLocal(z, t, 0, 0, 1)
                 [] period = "weekly" -> SetLocal(z, t, 0, 0, 7)
                 [] period = "monthly" -> SetLocal(z, t, 0, 1, 0)
                 [] period = "quarterly" -> SetLocal(z, t, 0, 3, 0)
                 [] period = "semiannual" -> SetLocal(z, t, 0, 6, 0)
                 [] period = "annual" -> SetLocal(z, t, 1, 0, 0)
                 [] OTHER -> t
    IN DateStr(u \div DayHours)

\* the payment periods the backend accepts (SelectField values)
PaymentPeriods == {"daily", "weekly", "monthly", "quarterly", "semiannual", "annual"}

\* the payment cache holds payment 1, due on day n with period p
InitPaid ==
    /\ \E n \in 0..(MaxPaidDay - 1), p \in PaymentPeriods :
         cache = [m \in Coll |->
                    IF m = "payments"
                    THEN <<[id |-> 1, serverId |-> "s1", providerId |-> 1,
                            period |-> p, nextPayment |-> DateStr(n),
                            amount |-> 10, currency |-> "RUB",
                            country |-> Undef, providerUrlOverride |-> Undef,
                            notes |-> Undef]>>
                    ELSE <<>>]
    /\ db = [m \in Coll |-> <<>>]
    /\ nextId = [m \in Coll |-> 1]
    /\ handlers = [m \in Coll |-> {}]
    /\ rt = [m \in Coll |-> <<>>]
    /\ unsub = [m \in Coll |-> NoHandler]
    /\ loading = FALSE
    /\ error = "null"
    /\ mounted = TRUE
    /\ ninit = 0
    /\ init = [i \in 1..MaxInits |-> InitCall]
    /\ op = NoOp
    /\ nops = 0
    /\ last = NoLast
    /\ InitAside

\* markPaymentPaid(id) in a browser of zone z, up to its await: the entry
\* is looked up in $payments; when it is there, updatePayment(id,
\* { nextPayment }) sends pb.collection('payments').update(id, pbUpdates)
\* with the one key that is defined; no store is written
markPaymentPaid(id, z) ==
    /\ calc = NoCalc
    /\ LET found == {p \in Range(cache["payments"]) : p.id = id}
       IN calc' = [fn |-> "markPaymentPaid", id |-> id, z |-> z,
                   before |-> cache,
                   sent |-> IF found = {} THEN <<>>
                            ELSE LET payment == CHOOSE p \in found : TRUE
                                 IN <<[coll |-> "payments", id |-> id,
                                       pbUpdates |-> [nextPayment |->
                                           NextDate(z, payment.nextPayment,
                                                    payment.period)]]>>]
    /\ UNCHANGED nocalc

NextPaid == \E id \in 1..2, z \in Zones : markPaymentPaid(id, z)

SpecPaid == InitPaid /\ [][NextPaid]_vars

\* ---- the local-only store next to the backend-synced store ----

MaxTwinOps == 3   \* operations applied to both stores in one behaviour

\* generateId() of the local-only store: a fresh id per call
generateId(n) == 100 + n

\* addProvider / addPayment of the local-only store
localAdd(L, m, input, id) ==
    [L EXCEPT ![m] = Append(@,
        IF m = "providers"
        THEN [id |-> id, name |-> input.name, url |-> input.url,
              currencyDefault |-> input.currencyDefault, notes |-> input.notes]
        ELSE [id |-> id, serverId |-> input.serverId,
              providerId |-> input.providerId, period |-> input.period,
              nextPayment |-> input.nextPayment, amount |-> input.amount,
              currency |-> input.currency, country |-> input.country,
              providerUrlOverride |-> input.providerUrlOverride,
              notes |-> input.notes])]

\* updateProvider / updatePayment of the local-only store:
\* p.id === id ? { ...p, ...updates } : p
localUpdate(L, m, id, updates) ==
    [L EXCEPT ![m] = [i \in 1..Len(@) |->
                        IF @[i].id = id THEN Fields(updates, @[i]) ELSE @[i]]]

\* deleteProvider (with the payments linked to it) / deletePayment of the
\* local-only store
localDelete(L, m, id) ==
    IF m = "providers"
    THEN [k \in Coll |->
            IF k = "providers" THEN SelectSeq(L[k], LAMBDA p : p.id # id)
            ELSE SelectSeq(L[k], LAMBDA p : p.providerId # id)]
    ELSE [L EXCEPT ![m] = SelectSeq(@, LAMBDA p : p.id # id)]

\* importPaymentsData of the local-only store: the lists of the document
\* replace the stores
localImport(L, data) == [providers |-> data.providers, payments |-> data.payments]

\* the backend-synced store with its backend: collections, next ids, caches
Synced == [db |-> db, nextId |-> nextId, cache |-> cache]

\* every handler registered for collection m handles the events in turn
RECURSIVE HandleAll(_, _, _)
HandleAll(m, current, events) ==
    IF events = <<>> THEN current
    ELSE HandleAll(m, Dispatch(Cardinality(handlers[m]), m, current, Head(events)), Tail(events))

\* pb.collection(m).create(..) of addProvider / addPayment, the realtime
\* event delivered; the backend refuses a second payment of a system
syncedCreate(S, m, input) ==
    IF m = "payments" /\ ~UniqueSystem(S.db[m], input.serverId) THEN S
    ELSE LET record == CreateRecord(m, S.nextId[m], input)
         IN [db |-> [S.db EXCEPT ![m] = Append(@, record)],
             nextId |-> [S.nextId EXCEPT ![m] = @ + 1],
             cache |-> [S.cache EXCEPT ![m] =
                          HandleAll(m, @, <<[action |-> "create", record |-> record]>>)]]

\* pb.collection(m).update(id, pbUpdates) of updateProvider /
\* updatePayment, the realtime event delivered
syncedUpdate(S, m, id, updates) ==
    LET record == Fields(pbUpdates(m, updates), RecordOf(S.db[m], id))
    IN [S EXCEPT
          !.db[m] = [i \in 1..Len(@) |-> IF @[i].id = id THEN record ELSE @[i]],
          !.cache[m] = HandleAll(m, @, <<[action |-> "update", record |-> record]>>)]

\* pb.collection(m).delete(id) of deleteProvider / deletePayment with the
\* backend's cascade, the realtime events delivered
syncedDelete(S, m, id) ==
    LET record == RecordOf(S.db[m], id)
        cascaded == IF m = "providers"
                    THEN SelectSeq(S.db["payments"], LAMBDA r : r.provider = id)
                    ELSE <<>>
    IN [S EXCEPT
          !.db = [k \in Coll |->
                    IF k = m THEN SelectSeq(S.db[k], LAMBDA r : r.id # id)
                    ELSE IF cascaded # <<>>
                    THEN SelectSeq(S.db[k], LAMBDA r : r.provider # id)
                    ELSE S.db[k]],
          !.cache = [k \in Coll |->
                    IF k = m
                    THEN HandleAll(k, S.cache[k], <<[action |-> "delete", record |-> record]>>)
                    ELSE HandleAll(k, S.cache[k], DeleteEvents(cascaded, 0))]]

\* the providers loop of importPaymentsData of the synced store
RECURSIVE syncedImportProviders(_, _, _)
syncedImportProviders(S, map, list) ==
    IF list = <<>> THEN [S |-> S, map |-> map]
    ELSE LET provider == Head(list)
             T == syncedCreate(S, "providers",
                      [name |-> provider.name, url |-> provider.url,
                       currencyDefault |-> provider.currencyDefault,
                       notes |-> provider.notes])
         IN syncedImportProviders(T, MapPut(map, provider.id, S.nextId["providers"]), Tail(list))

\* the payments loop of importPaymentsData of the synced store
RECURSIVE syncedImportPayments(_, _, _)
syncedImportPayments(S, map, list) ==
    IF list = <<>> THEN S
    ELSE LET payment == Head(list)
         IN IF ~MapHas(map, payment.providerId)
            THEN syncedImportPayments(S, map, Tail(list))
            ELSE syncedImportPayments(
                     syncedCreate(S, "payments",
                         [serverId |-> payment.serverId,
                          providerId |-> MapGet(map, payment.providerId),
                          period |-> payment.period,
                          nextPayment |-> payment.nextPayment,
                          amount |-> payment.amount,
                          currency |-> payment.currency,
                          country |-> payment.country,
                          providerUrlOverride |-> payment.providerUrlOverride,
                          notes |-> payment.notes]),
                     map, Tail(list))

\* importPaymentsData of the synced store, every create answered and every
\* realtime event delivered
syncedImport(S, data) ==
    LET P == syncedImportProviders(S, {}, data.providers)
    IN syncedImportPayments(P.S, P.map, data.payments)

\* inputs of the forms
TwinProviderUpdates ==
    ProviderUpdates \cup
        {[name |-> "c", url |-> Undef, currencyDefault |-> Undef, notes |-> Undef]}

TwinPaymentInput(serverId, providerId) ==
    [serverId |-> serverId, providerId |-> providerId, period |-> "monthly",
     nextPayment |-> "2024-01-01", amount |-> 10, currency |-> "RUB",
     country |-> Undef, providerUrlOverride |-> Undef, notes |-> Undef]

\* export documents: no provider or provider 7, no payment or a payment of
\* provider 7
TwinDocuments ==
    [providers : {<<>>, <<[id |-> 7, name |-> "a", url |-> "u",
                           currencyDefault |-> Undef, notes |-> Undef]>>},
     payments : {<<>>, <<[id |-> 9, serverId |-> "s4", providerId |-> 7,
                          period |-> "monthly", nextPayment |-> "2024-01-01",
                          amount |-> 10, currency |-> "RUB", country |-> Undef,
                          providerUrlOverride |-> Undef, notes |-> Undef]>>}]

\* both stores empty; the synced store has finished initPayments() against
\* an empty backend and holds its two subscriptions
InitTwin ==
    /\ db = [m \in Coll |-> <<>>]
    /\ nextId = [m \in Coll |-> 1]
    /\ handlers = [m \in Coll |-> {1}]
    /\ rt = [m \in Coll |-> <<>>]
    /\ cache = [m \in Coll |-> <<>>]
    /\ unsub = [m \in Coll |-> 1]
    /\ loading = FALSE
    /\ error = "null"
    /\ mounted = TRUE
    /\ ninit = 1
    /\ init = [i \in 1..MaxInits |->
                 IF i = 1
                 THEN [InitCall EXCEPT !.pc = "done",
                                       !.rf = [m \in Coll |-> "done"],
                                       !.sb = [m \in Coll |-> "done"]]
                 ELSE InitCall]
    /\ op = NoOp
    /\ nops = 0
    /\ last = NoLast
    /\ InitAside

\* the synced store goes to S, the local-only store to L
TwinStep(S, L, what) ==
    /\ nops < MaxTwinOps
    /\ nops' = nops + 1
    /\ db' = S.db
    /\ nextId' = S.nextId
    /\ cache' = S.cache
    /\ local' = L
    /\ last' = [op |-> what, before |-> [cache |-> cache, local |-> local]]
    /\ UNCHANGED <<handlers, rt, unsub, loading, error, mounted, ninit, init,
                   op, nfail, rates, ratesLoading, lr, imp, calc>>

\* addProvider(input) on both stores
TwinAddProvider(input) ==
    /\ mounted
    /\ TwinStep(syncedCreate(Synced, "providers", input),
                localAdd(local, "providers", input, generateId(nops)),
                "addProvider")

\* addPayment(input) on both stores, for the provider listed i-th
TwinAddPayment(serverId, i) ==
    /\ i <= Len(cache["providers"]) /\ i <= Len(local["providers"])
    /\ TwinStep(syncedCreate(Synced, "payments",
                    TwinPaymentInput(serverId, cache["providers"][i].id)),
                localAdd(local, "payments",
                    TwinPaymentInput(serverId, local["providers"][i].id),
                    generateId(nops)),
                "addPayment")

\* updateProvider / updatePayment on both stores, for the entry listed i-th
TwinUpdate(m, i, updates) ==
    /\ i <= Len(cache[m]) /\ i <= Len(local[m])
    /\ cache[m][i].id \in Ids(db[m])
    /\ TwinStep(syncedUpdate(Synced, m, cache[m][i].id, updates),
                localUpdate(local, m, local[m][i].id, updates),
                "update")

\* deleteProvider / deletePayment on both stores, for the entry listed i-th
TwinDelete(m, i) ==
    /\ i <= Len(cache[m]) /\ i <= Len(local[m])
    /\ cache[m][i].id \in Ids(db[m])
    /\ TwinStep(syncedDelete(Synced, m, cache[m][i].id),
                localDelete(local, m, local[m][i].id),
                IF m = "providers" THEN "deleteProvider" ELSE "deletePayment")

\* importPaymentsData(JSON.stringify(data)) on both stores
TwinImport(data) ==
    /\ mounted
    /\ TwinStep(syncedImport(Synced, data), localImport(local, data), "import")

NextTwin ==
    \/ \E input \in ProviderInputs : TwinAddProvider(input)
    \/ \E serverId \in {"s2", "s3"}, i \in 1..MaxTwinOps : TwinAddPayment(serverId, i)
    \/ \E i \in 1..MaxTwinOps, updates \in TwinProviderUpdates : TwinUpdate("providers", i, updates)
    \/ \E i \in 1..MaxTwinOps, updates \in PaymentUpdates : TwinUpdate("payments", i, updates)
    \/ \E m \in Coll, i \in 1..MaxTwinOps : TwinDelete(m, i)
    \/ \E data \in TwinDocuments : TwinImport(data)

SpecTwin == InitTwin /\ [][NextTwin]_vars

\* ---- claims ----

Entries(c, id) == SelectSeq(c, LAMBDA p : p.id = id)

\* C1: after a local create or update resolved, the cache holds exactly one
\* entry with that record's id and it equals the canonical record returned
\* by the backend, whatever the realtime event for the same id did so far.
C1_ResolvedRecordCached ==
    last.op \in {"create", "update"} =>
        Entries(cache[last.coll], last.id) = <<last.record>>

\* C2: after a local delete resolved, the id is absent from the cache.
C2_ResolvedDeleteAbsent ==
    last.op = "delete" => last.id \notin Ids(cache[last.coll])

C4_MergeIdempotent ==
    (last.op = "merge" /\ Len(last.records) = 1) =>
        add(cache[last.coll], last.records) = cache[last.coll]

\* C4 witness: a single record was merged over an entry of the same id
\* with another value.
C4_Witness ==
    /\ last.op = "merge" /\ Len(last.records) = 1
    /\ last.records[1].id \in Ids(last.before[last.coll])
    /\ last.records[1] \notin Range(last.before[last.coll])

\* C5: after merge of one record r the cache has exactly one entry of r.id
\* and it is r in every field; an id that was not cached is inserted.
C5_MergeFullUpsert ==
    (last.op = "merge" /\ Len(last.records) = 1) =>
        Entries(cache[last.coll], last.records[1].id) = last.records

\* C5 witness: the merged record has no notes while the entry it replaced
\* had some.
C5_Witness ==
    /\ last.op = "merge" /\ Len(last.records) = 1
    /\ last.records[1].notes = Undef
    /\ \E old \in Range(last.before[last.coll]) :
          old.id = last.records[1].id /\ old.notes # Undef

\* C6: after deleteProvider(id) resolved, the payments cache holds no
\* payment of that provider.
C6_CascadeMirrored ==
    (last.op = "delete" /\ last.coll = "providers") =>
        \A p \in Range(cache["payments"]) : p.providerId # last.id

\* C7: at most one realtime handler per manager is registered with the
\* backend at any time.
C7_OneHandler ==
    \A m \in Coll : Cardinality(handlers[m]) <= 1

\* C8: once cleanupPayments() has emptied the caches they stay empty until
\* initPayments() is called again.
C8_NoRevival ==
    ~mounted => \A m \in Coll : cache[m] = <<>>

\* C9: once the current initPayments() has completed without error and
\* every realtime event sent has been delivered, the cache holds the
\* backend's records.
C9_EventuallyConsistent ==
    (/\ mounted
     /\ init[ninit].pc = "done"
     /\ error = "null"
     /\ op.stage # "committed"
     /\ \A m \in Coll : rt[m] = <<>>) =>
        \A m \in Coll :
            Range(cache[m]) = {Convert(m, r) : r \in Range(db[m])}

\* C10: after a refresh() the cache is exactly the fetched list.
C10_RefreshReplaces ==
    last.op = "refresh" => cache[last.coll] = last.fetched

\* C10 witness: a refresh that found an id cached which the fetched list
\* does not have.
C10_Witness ==
    /\ last.op = "refresh"
    /\ Ids(last.before) \ Ids(last.fetched) # {}

\* C11: when the remote call of refresh, create, update or delete fails,
\* the operation rejects, the cache is as it was and the call is not sent
\* again.
C11_RejectedLeavesCache ==
    last.op = "rejected" => (cache = last.before /\ ~last.resend)

\* C11 witness: a remote call was rejected while its store held records.
C11_Witness ==
    /\ last.op = "rejected"
    /\ cache[last.coll] # <<>>

\* C12: when subscribe() fails in initPayments() after both refreshes
\* succeeded, $paymentsError is set and the stores keep their records.
C12_SubscribeFailureKeepsCache ==
    (last.op = "subscribeRejected" /\ last.caught) =>
        (error # "null" /\ cache = last.before)

\* C12 witness: such a failure with records loaded in both stores.
C12_Witness ==
    /\ last.op = "subscribeRejected" /\ last.caught
    /\ \A m \in Coll : cache[m] # <<>>

\* C13: the rates loading flag never remains stuck true: a loadRates()
\* call that has started and not ended can always take a further step, and
\* when a call ends $ratesLoading is false.
C13_LoadingNeverStuck ==
    /\ \A k \in 1..MaxLoads :
         lr[k].pc \notin {"idle", "done"} => ENABLED LoadStep(k)
    /\ last.op = "loadRates" => ~ratesLoading

FetchFailures == {"timeout", "network", "status"}

\* C14: when both fetch attempts of a loadRates() call fail (timeout,
\* network error, non-2xx) the call resolves to the fallback snapshot, the
\* published snapshot is the fallback one and the loading flag is false.
C14_FallbackAfterTwoFailures ==
    last.op = "loadRates" =>
        LET c == lr[last.k]
        IN (Len(c.outcome) = 2 /\ c.outcome[1] \in FetchFailures
               /\ c.outcome[2] \in FetchFailures) =>
             /\ c.settled = "resolved"
             /\ c.result = FALLBACK_RATES
             /\ rates.source = "fallback"
             /\ rates.USD = 9975 /\ rates.EUR = 11025
             /\ ~ratesLoading

\* C14 witness: a call ends whose first fetch timed out and whose second
\* fetch was answered with a non-2xx status.
C14_Witness ==
    /\ last.op = "loadRates"
    /\ lr[last.k].outcome = <<"timeout", "status">>

\* C15: a loadRates() call makes at most two fetch attempts, the second
\* exactly when the first failed (timeout, non-2xx, malformed payload) and
\* only after the backoff wait.
C15_RetryExactlyOnFailure ==
    \A k \in 1..MaxLoads :
        lr[k].pc = "done" =>
          /\ lr[k].attempts <= 2
          /\ lr[k].attempts = 2 <=> lr[k].outcome[1] # "ok"
          /\ lr[k].attempts = 2 => lr[k].waited = RetryDelay

\* C16: a payload whose USD or EUR value is not a finite number is
\* malformed: the call publishes the fallback snapshot, never a live one.
C16_NonFiniteIsMalformed ==
    last.op = "loadRates" =>
        LET c == lr[last.k]
        IN (c.data # NoBody
               /\ (Value(c.data, "USD").t # "number"
                     \/ Value(c.data, "EUR").t # "number")) =>
             (c.result.source = "fallback" /\ rates.source = "fallback")

\* C17: loadRates() never rejects: every call that ends resolves with a
\* snapshot whose source is "cbr" or "fallback".
C17_NeverRejects ==
    \A k \in 1..MaxLoads :
        lr[k].pc = "done" =>
          /\ lr[k].settled = "resolved"
          /\ lr[k].result.source \in {"cbr", "fallback"}
          /\ lr[k].result.source = "cbr" <=> lr[k].outcome[Len(lr[k].outcome)] = "ok"

\* C17 witness: two calls have ended, one after a timeout and a non-2xx
\* answer, the other after an unparseable body and a body of another shape.
C17_Witness ==
    /\ \A k \in 1..2 : lr[k].pc = "done"
    /\ lr[1].outcome = <<"timeout", "status">>
    /\ lr[2].outcome = <<"unparseable", "shape">>

\* C18: on a successful fetch with raw numbers u and e the published
\* snapshot has USD = u * 1.05 and EUR = e * 1.05, never the raw values.
C18_MarkupOnBoth ==
    last.op = "loadRates" =>
        LET c == lr[last.k]
            u == Value(c.data, "USD")
            e == Value(c.data, "EUR")
        IN (c.result.source = "cbr" /\ u.t = "number" /\ e.t = "number") =>
             /\ rates = c.result
             /\ rates.USD * 100 = u.n * 105
             /\ rates.EUR * 100 = e.n * 105
             /\ rates.USD # u.n /\ rates.EUR # e.n

\* C18 witness: a call ends that published the snapshot of a body with
\* the numbers 90.00 and 100.00.
C18_Witness ==
    /\ last.op = "loadRates"
    /\ lr[last.k].result.source = "cbr"
    /\ Value(lr[last.k].data, "USD") = JsNum(9000)
    /\ Value(lr[last.k].data, "EUR") = JsNum(10000)

\* the elements of the imported document, as <<list, index>>
DocEntries(doc) ==
    {<<"providers", i>> : i \in 1..Len(doc.providers)}
        \cup {<<"payments", j>> : j \in 1..Len(doc.payments)}

\* the messages of the result that are about one element
ErrorsOf(result, list, i) ==
    {n \in 1..Len(result.errors) :
        result.errors[n].list = list /\ result.errors[n].i = i}

\* C19: a payment whose providerId has no entry in the id mapping of the
\* run gets one error and no remote create, and every valid provider and
\* every other payment of the document is still sent to the backend.
C19_UnmappedPaymentSkipped ==
    imp.pc = "done" =>
        \A j \in 1..Len(imp.doc.payments) :
            LET payment == imp.doc.payments[j]
            IN (payment # JsNull /\ ~MapHas(imp.map, payment.providerId)) =>
                 /\ Cardinality(ErrorsOf(imp.result, "payments", j)) = 1
                 /\ <<"payments", j>> \notin imp.calls
                 /\ \A i \in 1..Len(imp.doc.providers) :
                      imp.doc.providers[i] # JsNull =>
                          <<"providers", i>> \in imp.calls
                 /\ \A n \in 1..Len(imp.doc.payments) :
                      (imp.doc.payments[n] # JsNull
                         /\ MapHas(imp.map, imp.doc.payments[n].providerId)) =>
                          <<"payments", n>> \in imp.calls

\* C20: for a document that parses, every element of providers and of
\* payments is attempted, the result has exactly one message per failed
\* element, and success is true exactly when no element failed.
C20_BatchNeverStops ==
    (imp.pc = "done" /\ imp.parsed) =>
        /\ imp.processed = DocEntries(imp.doc)
        /\ Len(imp.result.errors) = Cardinality(imp.failed)
        /\ \A e \in imp.failed :
             Cardinality(ErrorsOf(imp.result, e[1], e[2])) = 1
        /\ imp.result.success <=> imp.failed = {}

\* C21: every payment an import run created references the id the backend
\* gave, earlier in the same run, to a provider whose old id is the
\* payment's providerId in the document; never the old id; and no provider
\* is created after a payment.
C21_PaymentsRemapped ==
    imp.pc # "idle" =>
        \A n \in 1..Len(imp.made) :
            imp.made[n].list = "payments" =>
              LET old == imp.doc.payments[imp.made[n].i].providerId
              IN /\ \E k \in 1..(n - 1) :
                      /\ imp.made[k].list = "providers"
                      /\ imp.doc.providers[imp.made[k].i].id = old
                      /\ imp.made[k].id = imp.made[n].provider
                 /\ imp.made[n].provider # old
                 /\ RecordOf(db["payments"], imp.made[n].id).provider = imp.made[n].provider
                 /\ imp.made[n].provider \in Ids(db["providers"])
                 /\ \A k \in n..Len(imp.made) : imp.made[k].list = "payments"

\* C21 witness: an import of two providers ended and created a payment of
\* the second provider of the document.
C21_Witness ==
    /\ imp.pc = "done"
    /\ Len(imp.doc.providers) = 2
    /\ \E n \in 1..Len(imp.made) :
         /\ imp.made[n].list = "payments"
         /\ imp.doc.providers[2] # JsNull
         /\ imp.doc.providers[2].id = imp.doc.payments[imp.made[n].i].providerId
         /\ imp.doc.providers[1].id # imp.doc.providers[2].id

\* C22: the import as a whole fails exactly when the input string does not
\* parse, then with a single parse error and without any remote create;
\* for a document that parses the result carries the per-entity errors.
C22_WholeFailureOnlyOnParse ==
    imp.pc = "done" =>
        /\ imp.result = ParseError <=> ~imp.parsed
        /\ ~imp.parsed => (imp.calls = {} /\ imp.made = <<>>)
        /\ imp.parsed => imp.result.errors = imp.errors

\* C23: the store keeps several payments of one serverId: add(), refresh()
\* and the realtime handler leave every cached payment of another id in
\* place and unchanged, whatever its serverId, and add() stores every
\* record of its batch (the last one of each id).
C23_SameServerTolerated ==
    (last.op = "merge" /\ last.coll = "payments") =>
        LET before == last.before["payments"]
            others == {e \in Range(before) : e.id \notin Ids(last.records)}
        IN /\ others \subseteq Range(cache["payments"])
           /\ \A i \in 1..Len(last.records) :
                (\A j \in (i + 1)..Len(last.records) :
                    last.records[j].id # last.records[i].id)
                => last.records[i] \in Range(cache["payments"])
           /\ refresh(before, cache["payments"]) = cache["payments"]
           /\ \A id \in 1..(MaxId + 1) :
                LET e == [action |-> "create",
                          record |-> PaymentRecord(id, "s1", 1, "monthly",
                                         PBDate("2024-01-01"), 10, "RUB",
                                         "", "", "")]
                    after == handler("payments", cache["payments"], e)
                IN /\ {x \in Range(cache["payments"]) : x.id # id}
                         \subseteq Range(after)
                   /\ Len(Entries(after, id)) = 1

\* C23 witness: a payment was merged into a cache that holds a payment of
\* another id and the same serverId.
C23_Witness ==
    /\ last.op = "merge" /\ last.coll = "payments"
    /\ \E e \in Range(last.before["payments"]) :
         /\ e.id # last.records[1].id
         /\ e.serverId = last.records[1].serverId
         /\ e \in Range(cache["payments"])

\* C30: remove(ids) deletes exactly the cached entries whose id is in ids;
\* ids that are not cached change nothing.
C30_RemoveExact ==
    last.op = "remove" =>
        LET before == last.before[last.coll]
        IN /\ Range(cache[last.coll]) = {e \in Range(before) : e.id \notin last.ids}
           /\ Len(cache[last.coll]) = Len(before) - Cardinality(Ids(before) \cap last.ids)
           /\ (Ids(before) \cap last.ids = {}) => cache[last.coll] = before
           /\ \A m \in Coll \ {last.coll} : cache[m] = last.before[m]

\* C30 witness: remove was called with ids none of which is cached, on a
\* cache that holds entries.
C30_Witness ==
    /\ last.op = "remove"
    /\ last.ids # {}
    /\ last.before[last.coll] # <<>>
    /\ Ids(last.before[last.coll]) \cap last.ids = {}

\* C24: getPaymentStatus is crit for days <= 1 (0 and negative included),
\* warn for 1 < days <= 5 and ok for days > 5, +Infinity included.
C24_StatusBands ==
    calc.fn = "getPaymentStatus" =>
        LET d == calc.days
        IN /\ (d.fin /\ d.v <= 1) => calc.out = "crit"
           /\ (d.fin /\ 1 < d.v /\ d.v <= 5) => calc.out = "warn"
           /\ (d.fin /\ d.v > 5) => calc.out = "ok"
           /\ d = Infinity => calc.out = "ok"
           /\ d = Finite(1) => calc.out = "crit"
           /\ d = Finite(2) => calc.out = "warn"
           /\ d = Finite(5) => calc.out = "warn"
           /\ d = Finite(6) => calc.out = "ok"

\* C24 witness: the status of +Infinity days was computed.
C24_Witness ==
    /\ calc.fn = "getPaymentStatus"
    /\ calc.days = Infinity
    /\ calc.out = "ok"

\* C25: for a date string of calendar day D daysUntilPayment returns
\* D - today, today being the local calendar day, whatever the hour, the
\* UTC offset and the summer-time change in between; for a string that is
\* no date it returns +Infinity, whose status is ok.
C25_CalendarDays ==
    calc.fn = "daysUntilPayment" =>
        /\ calc.dateStr.t = "date" =>
               calc.out = Finite(calc.dateStr.day - calc.today)
        /\ calc.dateStr = BadDate =>
               (calc.out = Infinity /\ getPaymentStatus(calc.out) = "ok")

Abs(x) == IF x < 0 THEN -x ELSE x
Ceil(f) == (f.n + f.d - 1) \div f.d

C27_FactorTable ==
    calc.fn = "getMonthlyFactor" =>
        LET expected ==
              CASE calc.period = "daily" -> Ratio(30, 1)
                [] calc.period = "weekly" -> Ratio(365, 84)
                [] calc.period = "monthly" -> Ratio(1, 1)
                [] calc.period = "quarterly" -> Ratio(1, 3)
                [] calc.period = "semiannual" -> Ratio(1, 6)
                [] calc.period = "annual" -> Ratio(1, 12)
                [] OTHER -> Ratio(1, 1)
        IN /\ calc.out.d > 0
           /\ REq(calc.out, expected)

\* C27 witness: the factor of a period outside the six known ones.
C27_Witness ==
    /\ calc.fn = "getMonthlyFactor"
    /\ calc.period = "biweekly"

\* C28: toRub returns the amount for RUB, amount * rates.USD for USD,
\* amount * rates.EUR for EUR and the amount for every other currency.
C28_ToRub ==
    calc.fn = "toRub" =>
        LET rate == IF calc.currency = "USD" THEN calc.rates.USD
                    ELSE IF calc.currency = "EUR" THEN calc.rates.EUR
                    ELSE Scale
        IN /\ calc.out * Scale <= calc.amount * rate
           /\ calc.amount * rate < (calc.out + 1) * Scale
           /\ calc.currency \notin {"USD", "EUR"} => calc.out = calc.amount

\* C28 witness: an amount in a currency outside RUB, USD, EUR.
C28_Witness ==
    /\ calc.fn = "toRub"
    /\ calc.currency = "GBP"
    /\ calc.amount = 1999

\* an entry of the document says what the cached entry says: every field
\* of the cached entry that has a value, and no other field
SameEntry(j, o) ==
    /\ DOMAIN j \subseteq DOMAIN o
    /\ \A k \in DOMAIN o :
         IF k \in OptionalKeys /\ o[k] = Undef
         THEN k \notin DOMAIN j
         ELSE k \in DOMAIN j /\ j[k] = o[k]

SameList(js, os) ==
    /\ Len(js) = Len(os)
    /\ \A i \in 1..Len(os) : SameEntry(js[i], os[i])

\* C29: the export document has exactly the keys providers, payments and
\* exportedAt (so no rate snapshot), its two lists are the cached providers
\* and the cached payments in cache order, exportedAt is the instant of the
\* call, and the provider cache, the payment cache and the rate snapshot
\* are what they were before the call.
C29_ExportFrame ==
    calc.fn = "exportPaymentsData" =>
        /\ DOMAIN calc.doc = {"providers", "payments", "exportedAt"}
        /\ SameList(calc.doc.providers, calc.before.cache["providers"])
        /\ SameList(calc.doc.payments, calc.before.cache["payments"])
        /\ calc.doc.exportedAt = toISOString(calc.now)
        /\ cache = calc.before.cache
        /\ rates = calc.before.rates

\* C29 witness: an export of two providers and a payment, one entry with
\* an undefined optional field, while the rate snapshot is a live one.
C29_Witness ==
    /\ calc.fn = "exportPaymentsData"
    /\ Len(cache["providers"]) = 2
    /\ Len(cache["payments"]) >= 1
    /\ cache["payments"][1].notes = Undef
    /\ cache["providers"][1].notes = "n"
    /\ rates.source = "cbr"

\* no id twice in a list of entries
UniqueIds(c) == \A i, j \in 1..Len(c) : c[i].id = c[j].id => i = j

\* C32: in every reachable state each cache holds at most one entry per
\* id, and merging any batch of two records into it, the same id twice
\* included, leaves at most one entry per id.
C32_OneEntryPerId ==
    \A m \in Coll :
        /\ UniqueIds(cache[m])
        /\ \A r1, r2 \in Values(m) : UniqueIds(add(cache[m], <<r1, r2>>))

\* C32 witness: a realtime create event was handled by two registered
\* handlers, so its record was merged twice, next to an older entry.
C32_Witness ==
    /\ op.stage \in {"committed", "resolved"}
    /\ op.kind = "create"
    /\ op.realtime
    /\ Cardinality(handlers[op.coll]) = 2
    /\ op.id \in Ids(cache[op.coll])
    /\ Len(cache[op.coll]) = 2

\* the entries of a cache whose id is not x, in cache order
Others(c, x) == SelectSeq(c, LAMBDA p : p.id # x)

\* C33: a step that handles a realtime event of collection m (a merge of
\* one record, or a removal of one id) leaves every entry of cache m with
\* another id as it was and where it was, and leaves the cache of the
\* other collection unchanged.
C33_OtherIdsUntouched ==
    [][\A m \in Coll :
          (rt[m] # <<>> /\ rt'[m] = Tail(rt[m])) =>
              /\ Others(cache'[m], Head(rt[m]).record.id)
                   = Others(cache[m], Head(rt[m]).record.id)
              /\ \A k \in Coll \ {m} : cache'[k] = cache[k]]_vars

\* C33 witness: a realtime create event of the providers collection was
\* handled while the provider cache held another provider and the payment
\* cache held a payment.
C33_Witness ==
    /\ op.stage \in {"committed", "resolved"}
    /\ op.kind = "create" /\ op.coll = "providers"
    /\ op.realtime
    /\ \E p \in Range(cache["providers"]) : p.id = op.id
    /\ \E p \in Range(cache["providers"]) : p.id # op.id
    /\ cache["payments"] # <<>>

\* C34: an attempt is bounded by its timeout as a whole: as long as a call
\* awaits the response or reads its body, the abort timer of the attempt
\* is armed, so that a body that never ends is abandoned when it fires.
C34_AttemptBounded ==
    \A k \in 1..MaxLoads :
        lr[k].pc \in {"fetch", "json"} => lr[k].timer = FetchTimeout

\* C35: $ratesLoading is true in every state in which a loadRates() call
\* has started and not ended, overlapping calls included.
C35_LoadingWhileInFlight ==
    (\E k \in 1..MaxLoads : lr[k].pc \notin {"idle", "done"}) => ratesLoading

\* C36: in every reachable state the published rate snapshot has strictly
\* positive USD and EUR values (the divisors of rubToUsd and rubToEur).
C36_RatesPositive ==
    /\ rates.USD > 0
    /\ rates.EUR > 0

\* C37: after cleanupPayments(), once no initPayments() call is pending any
\* more, no realtime handler of either manager is registered with the
\* backend: a subscription established after the cleanup is torn down.
C37_CleanupUnsubscribesAll ==
    (~mounted /\ \A i \in 1..MaxInits : init[i].pc \in {"idle", "done"}) =>
        \A m \in Coll : handlers[m] = {}

\* an initPayments() call has returned
Ended(c) == c.pc \in {"done", "failed"}

\* one of the remote calls of an initPayments() call failed
RemoteFailed(c) ==
    \E m \in Coll : c.rf[m] \in {"failing", "failed"} \/ c.sb[m] \in {"failing", "failed"}

\* C38: subscriptions are requested only after both refreshes of the call
\* succeeded, and the step in which an initPayments() call ends leaves
\* $paymentsLoading false and $paymentsError non-null exactly when one of
\* the call's remote calls failed.
C38_InitOutcome ==
    [][\A i \in 1..MaxInits :
          /\ (\E m \in Coll : init'[i].sb[m] # "idle") =>
                 \A m \in Coll : init'[i].rf[m] = "done"
          /\ (~Ended(init[i]) /\ Ended(init'[i])) =>
                 /\ loading' = FALSE
                 /\ error' # "null" <=> RemoteFailed(init'[i])]_vars

\* the date n advanced by period p on the calendar
Advanced(n, p) ==
    CASE p = "daily" -> n + 1
      [] p = "weekly" -> n + 7
      [] p = "monthly" -> MakeDay(YearFromDay(n), MonthFromDay(n) + 1, DateFromDay(n))
      [] p = "quarterly" -> MakeDay(YearFromDay(n), MonthFromDay(n) + 3, DateFromDay(n))
      [] p = "semiannual" -> MakeDay(YearFromDay(n), MonthFromDay(n) + 6, DateFromDay(n))
      [] p = "annual" -> MakeDay(YearFromDay(n) + 1, MonthFromDay(n), DateFromDay(n))

\* C39: markPaymentPaid(id) sends no remote call when id is not cached and
\* otherwise one update of payment id whose only key is nextPayment, a date
\* strictly later than the cached one and equal to the cached date
\* advanced by the entry's period; the caches are as they were.
C39_PaidAdvances ==
    calc.fn = "markPaymentPaid" =>
        /\ cache = calc.before
        /\ calc.id \notin Ids(cache["payments"]) => calc.sent = <<>>
        /\ calc.id \in Ids(cache["payments"]) =>
             LET payment == CHOOSE p \in Range(cache["payments"]) : p.id = calc.id
                 n == payment.nextPayment.day
             IN /\ Len(calc.sent) = 1
                /\ calc.sent[1].coll = "payments" /\ calc.sent[1].id = calc.id
                /\ DOMAIN calc.sent[1].pbUpdates = {"nextPayment"}
                /\ calc.sent[1].pbUpdates.nextPayment.day > n
                /\ calc.sent[1].pbUpdates.nextPayment = DateStr(Advanced(n, payment.period))

\* entry p of the local-only store with its ids renamed
Renamed(m, p, f, g) ==
    IF m = "providers" THEN [p EXCEPT !.id = f[p.id]]
    ELSE [p EXCEPT !.id = g[p.id],
                   !.providerId = IF @ \in DOMAIN f THEN f[@] ELSE @]

\* the two stores hold the same entries up to a renaming of ids
EqualUpToIds(L, C) ==
    /\ \A m \in Coll : Len(L[m]) = Len(C[m])
    /\ \E f \in [Ids(L["providers"]) -> Ids(C["providers"])] :
         \E g \in [Ids(L["payments"]) -> Ids(C["payments"])] :
           \A m \in Coll :
             {Renamed(m, L[m][i], f, g) : i \in 1..Len(L[m])} = Range(C[m])

\* C31: after the same sequence of create, update, delete and import
\* operations, every realtime event delivered, the local-only store and
\* the cache of the backend-synced store are equal up to a renaming of ids.
C31_StoresInterchangeable ==
    EqualUpToIds(local, cache)

====
